---- MODULE Spec2Model ----
(***************************************************************************)
(* Messenger help bot: webhook dispatch and the help-menu replies of the   *)
(* four server files of the repository.                                    *)
(*                                                                         *)
(*   "app"      src/node/app.js        (echo server)                       *)
(*   "part_000" src/unnamed/part_000   (help command + carousel replies)   *)
(*   "part_001" src/unnamed/part_001   (sample server, *_A .. *_F tokens)  *)
(*   "part_002" src/unnamed/part_002   (carousel + linear replies)         *)
(*                                                                         *)
(* One server file runs per deployment; the variable `variant` names it.   *)
(***************************************************************************)
EXTENDS Integers, Sequences, FiniteSets, TLC

VARIABLES
  variant,   \* which server file is running
  mode,      \* which responder handleQuickReplyResponse calls
  req,       \* the body of the last POST /webhook request
  outbox,    \* messageData handed to callSendAPI while handling req, in order
  res,       \* status sent with res.sendStatus for req (0: none sent)
  threw,     \* name of the exception that aborted the handler ("" if none)
  walk,      \* quick-reply payloads tapped in a row through "Continue"
  appSecret, \* APP_SECRET of the deployment
  signature, \* x-hub-signature header of the last POST /webhook request
  rawBody,   \* raw body (buf) of the last POST /webhook request
  verdict,   \* how verifyRequestSignature ended for it
  running,   \* the app.post handler is on the stack
  dispatched, \* events of req the handler has dispatched so far
  completed, \* Send API callbacks of the calls in outbox that have run
  query,     \* req.query of the last GET /webhook request
  getres,    \* the response given to it
  tags,      \* branch of the dispatch chain taken for each event dispatched
  sendlog,   \* what the Send API callbacks that ran have logged
  config,    \* the configuration values the process was started with
  process    \* "starting", "listening", "exited" or "crashed"

httpvars == <<appSecret, signature, rawBody, verdict, running, dispatched,
              completed, query, getres, tags, sendlog>>
startvars == <<config, process>>
vars == <<variant, mode, req, outbox, res, threw, walk, appSecret, signature,
          rawBody, verdict, running, dispatched, completed, query, getres,
          tags, sendlog, config, process>>

Variants == {"app", "part_000", "part_001", "part_002"}

\* the two responders a quick reply can be answered with
Templates == "respondToHelpRequestWithTemplates"
LinearPhotos == "respondToHelpRequestWithLinearPhotos"

-----------------------------------------------------------------------------
(* Configuration values (config/default.json)                              *)

SERVER_URL == "bot.example"
PAGE_ID == "PAGE"
APP_SECRET == "appSecret"
VALIDATION_TOKEN == "validationToken"

\* part_000 / part_002: protocol hard coded in front of the server URL
IMG_BASE_PATH == "https://" \o SERVER_URL \o "/assets/screenshots/"
\* part_001: the server URL is used as configured
P1_imgBasePath == SERVER_URL \o "/assets/screenshots/"

-----------------------------------------------------------------------------
(* Outbound message parts                                                  *)

QuickReply(title, payload) ==
  [content_type |-> "text", title |-> title, payload |-> payload]

PostbackButton(title, payload) ==
  [type |-> "postback", title |-> title, payload |-> payload]

TemplateElement(title, subtitle, image_url, buttons) ==
  [title |-> title, subtitle |-> subtitle, image_url |-> image_url,
   buttons |-> buttons]

\* result of running a function: the callSendAPI calls it made, in order, and
\* the exception it ended with ("" when it returned normally)
Returned(calls) == [calls |-> calls, threw |-> ""]
Threw(calls, what) == [calls |-> calls, threw |-> what]

\* the generic-template message built at the end of respondToHelpRequestWithTemplates
TemplateMessage(recipientId, templateElements) ==
  [recipient |-> [id |-> recipientId],
   message |-> [attachment |->
                  [type |-> "template",
                   payload |-> [template_type |-> "generic",
                                elements |-> templateElements]]]]

\* sendTextMessage of app.js and part_000: text only
TextMessage(recipientId, messageText) ==
  [recipient |-> [id |-> recipientId], message |-> [text |-> messageText]]

\* faulty variant: the metadata tells whether an earlier request was answered
TextMetadataMessage_remembering(recipientId, messageText) ==
  [recipient |-> [id |-> recipientId],
   message |-> [text |-> messageText,
                metadata |-> IF res = 200 THEN "DEVELOPER_DEFINED_METADATA"
                             ELSE "FIRST"]]

\* sendTextMessage of part_001 and part_002: text and metadata
TextMetadataMessage(recipientId, messageText) ==
  [recipient |-> [id |-> recipientId],
   message |-> [text |-> messageText, metadata |-> "DEVELOPER_DEFINED_METADATA"]]

-----------------------------------------------------------------------------
(* Carousel replies of part_002 (part_000 holds the same function text)    *)

\* faulty variant: the Caption case adds a button for Caption itself instead of Photo
P2_sectionButtons_selfLink(requestForHelpOnFeature) ==
  CASE requestForHelpOnFeature = "QR_ROTATION_1" ->
         << PostbackButton("Photo", "QR_PHOTO_1"),
            PostbackButton("Caption", "QR_CAPTION_1"),
            PostbackButton("Background", "QR_BACKGROUND_1") >>
    [] requestForHelpOnFeature = "QR_PHOTO_1" ->
         << PostbackButton("Rotation", "QR_ROTATION_1"),
            PostbackButton("Caption", "QR_CAPTION_1"),
            PostbackButton("Background", "QR_BACKGROUND_1") >>
    [] requestForHelpOnFeature = "QR_CAPTION_1" ->
         << PostbackButton("Rotation", "QR_ROTATION_1"),
            PostbackButton("Caption", "QR_CAPTION_1"),
            PostbackButton("Background", "QR_BACKGROUND_1") >>
    [] requestForHelpOnFeature = "QR_BACKGROUND_1" ->
         << PostbackButton("Rotation", "QR_ROTATION_1"),
            PostbackButton("Photo", "QR_PHOTO_1"),
            PostbackButton("Caption", "QR_CAPTION_1") >>
    [] OTHER -> << >>

\* the addSectionButton calls of each case of the switch
P2_sectionButtons(requestForHelpOnFeature) ==
  CASE requestForHelpOnFeature = "QR_ROTATION_1" ->
         << PostbackButton("Photo", "QR_PHOTO_1"),
            PostbackButton("Caption", "QR_CAPTION_1"),
            PostbackButton("Background", "QR_BACKGROUND_1") >>
    [] requestForHelpOnFeature = "QR_PHOTO_1" ->
         << PostbackButton("Rotation", "QR_ROTATION_1"),
            PostbackButton("Caption", "QR_CAPTION_1"),
            PostbackButton("Background", "QR_BACKGROUND_1") >>
    [] requestForHelpOnFeature = "QR_CAPTION_1" ->
         << PostbackButton("Rotation", "QR_ROTATION_1"),
            PostbackButton("Photo", "QR_PHOTO_1"),
            PostbackButton("Background", "QR_BACKGROUND_1") >>
    [] requestForHelpOnFeature = "QR_BACKGROUND_1" ->
         << PostbackButton("Rotation", "QR_ROTATION_1"),
            PostbackButton("Photo", "QR_PHOTO_1"),
            PostbackButton("Caption", "QR_CAPTION_1") >>
    [] OTHER -> << >>

\* faulty variant: the Photo case pushes its second card before its first, and the
\* Background case leaves out its last card
P2_templateElements_misordered(requestForHelpOnFeature) ==
  LET sectionButtons == P2_sectionButtons(requestForHelpOnFeature)
      E(title, subtitle, file) ==
        TemplateElement(title, subtitle, IMG_BASE_PATH \o file, sectionButtons)
  IN CASE requestForHelpOnFeature = "QR_ROTATION_1" ->
         << E("Rotation", "portrait mode", "01-rotate-landscape.png"),
            E("Rotation", "landscape mode", "02-rotate-portrait.png") >>
    [] requestForHelpOnFeature = "QR_PHOTO_1" ->
         << E("Photo Picker", "Downloads folder", "04-photo-list.png"),
            E("Photo Picker", "click to start", "03-photo-hover.png"),
            E("Photo Picker", "photo selected", "05-photo-selected.png") >>
    [] requestForHelpOnFeature = "QR_CAPTION_1" ->
         << E("Caption", "click to start", "06-text-hover.png"),
            E("Caption", "enter text", "07-text-mid-entry.png"),
            E("Caption", "click OK", "08-text-entry-done.png"),
            E("Caption", "Caption done", "09-text-complete.png") >>
    [] requestForHelpOnFeature = "QR_BACKGROUND_1" ->
         << E("Background Color Picker", "click to start",
              "10-background-picker-hover.png"),
            E("Background Color Picker", "click current color",
              "11-background-picker-appears.png"),
            E("Background Color Picker", "select new color",
              "12-background-picker-selection.png"),
            E("Background Color Picker", "click ok",
              "13-background-picker-selection-made.png") >>
    [] OTHER -> << >>

\* the templateElements.push call of each case; every element refers to the one
\* sectionButtons array
P2_templateElements(requestForHelpOnFeature) ==
  LET sectionButtons == P2_sectionButtons(requestForHelpOnFeature)
      E(title, subtitle, file) ==
        TemplateElement(title, subtitle, IMG_BASE_PATH \o file, sectionButtons)
  IN CASE requestForHelpOnFeature = "QR_ROTATION_1" ->
         << E("Rotation", "portrait mode", "01-rotate-landscape.png"),
            E("Rotation", "landscape mode", "02-rotate-portrait.png") >>
    [] requestForHelpOnFeature = "QR_PHOTO_1" ->
         << E("Photo Picker", "click to start", "03-photo-hover.png"),
            E("Photo Picker", "Downloads folder", "04-photo-list.png"),
            E("Photo Picker", "photo selected", "05-photo-selected.png") >>
    [] requestForHelpOnFeature = "QR_CAPTION_1" ->
         << E("Caption", "click to start", "06-text-hover.png"),
            E("Caption", "enter text", "07-text-mid-entry.png"),
            E("Caption", "click OK", "08-text-entry-done.png"),
            E("Caption", "Caption done", "09-text-complete.png") >>
    [] requestForHelpOnFeature = "QR_BACKGROUND_1" ->
         << E("Background Color Picker", "click to start",
              "10-background-picker-hover.png"),
            E("Background Color Picker", "click current color",
              "11-background-picker-appears.png"),
            E("Background Color Picker", "select new color",
              "12-background-picker-selection.png"),
            E("Background Color Picker", "click ok",
              "13-background-picker-selection-made.png"),
            E("Background Color Picker", "color is applied",
              "14-background-changed.png") >>
    [] OTHER -> << >>

\* part_002: fewer than two elements is logged with console.error and the
\* message is handed to callSendAPI all the same
P2_respondToHelpRequestWithTemplates(recipientId, requestForHelpOnFeature) ==
  Returned(<< TemplateMessage(recipientId,
                              P2_templateElements(requestForHelpOnFeature)) >>)

\* part_000: the same function text as part_002 (switch, log, send)
P0_respondToHelpRequestWithTemplates(recipientId, requestForHelpOnFeature) ==
  Returned(<< TemplateMessage(recipientId,
                              P2_templateElements(requestForHelpOnFeature)) >>)

-----------------------------------------------------------------------------
(* Carousel replies of part_001                                            *)

\* sectionButtons starts as two postback buttons with empty title and payload;
\* each case overwrites both
\* faulty variant: no card has a button for Caption
P1_sectionButtons_noWayToCaption(requestForHelpOnFeature) ==
  CASE requestForHelpOnFeature = "QR_ROTATION_A" ->
         << PostbackButton("Background Color", "QR_BACKGROUND_COLOR_A"),
            PostbackButton("Photo", "QR_PHOTO_A") >>
    [] requestForHelpOnFeature = "QR_PHOTO_A" ->
         << PostbackButton("Rotation", "QR_ROTATION_A"),
            PostbackButton("Background Color", "QR_BACKGROUND_COLOR_A") >>
    [] requestForHelpOnFeature = "QR_POSTER_TEXT_A" ->
         << PostbackButton("Photo", "QR_PHOTO_A"),
            PostbackButton("Background Color", "QR_BACKGROUND_COLOR_A") >>
    [] requestForHelpOnFeature = "QR_BACKGROUND_COLOR_A" ->
         << PostbackButton("Photo", "QR_PHOTO_A"),
            PostbackButton("Rotate", "QR_ROTATION_A") >>

P1_sectionButtons(requestForHelpOnFeature) ==
  CASE requestForHelpOnFeature = "QR_ROTATION_A" ->
         << PostbackButton("Background Color", "QR_BACKGROUND_COLOR_A"),
            PostbackButton("Photo", "QR_PHOTO_A") >>
    [] requestForHelpOnFeature = "QR_PHOTO_A" ->
         << PostbackButton("Rotation", "QR_ROTATION_A"),
            PostbackButton("Caption", "QR_POSTER_TEXT_A") >>
    [] requestForHelpOnFeature = "QR_POSTER_TEXT_A" ->
         << PostbackButton("Photo", "QR_PHOTO_A"),
            PostbackButton("Background Color", "QR_BACKGROUND_COLOR_A") >>
    [] requestForHelpOnFeature = "QR_BACKGROUND_COLOR_A" ->
         << PostbackButton("Caption", "QR_POSTER_TEXT_A"),
            PostbackButton("Rotate", "QR_ROTATION_A") >>
    [] OTHER -> << PostbackButton("", ""), PostbackButton("", "") >>

P1_templateElements(requestForHelpOnFeature) ==
  LET sectionButtons == P1_sectionButtons(requestForHelpOnFeature)
      E(title, subtitle, file) ==
        TemplateElement(title, subtitle, P1_imgBasePath \o file, sectionButtons)
  IN CASE requestForHelpOnFeature = "QR_ROTATION_A" ->
         << E("Rotation", "portrait mode", "01-rotate-landscape.png"),
            E("Rotation", "landscape mode", "02-rotate-portrait.png") >>
    [] requestForHelpOnFeature = "QR_PHOTO_A" ->
         << E("Photo Picker", "click to start", "03-photo-hover.png"),
            E("Photo Picker", "Downloads folder", "04-photo-list.png"),
            E("Photo Picker", "photo selected", "05-photo-selected.png") >>
    [] requestForHelpOnFeature = "QR_POSTER_TEXT_A" ->
         << E("Caption", "click to start", "06-text-hover.png"),
            E("Caption", "enter text", "07-text-mid-entry.png"),
            E("Caption", "click OK", "08-text-entry-done.png"),
            E("Caption", "Caption done", "09-text-complete.png") >>
    [] requestForHelpOnFeature = "QR_BACKGROUND_COLOR_A" ->
         << E("Color Picker", "click to start", "10-background-picker-hover.png"),
            E("Color Picker", "click current color",
              "11-background-picker-appears.png"),
            E("Color Picker", "select new color",
              "12-background-picker-selection.png"),
            E("Color Picker", "click ok",
              "13-background-picker-selection-made.png"),
            E("Color Picker", "color is applied", "14-background-changed.png") >>
    [] OTHER -> << >>

\* faulty variant: the return after the log is missing, the message is sent anyway
\* with the top-level prompt in front of it
P1_respondToHelpRequestWithTemplates_noReturn(recipientId, requestForHelpOnFeature) ==
  LET templateElements == P1_templateElements(requestForHelpOnFeature)
  IN IF Len(templateElements) < 2
       THEN Returned(<< [recipient |-> [id |-> recipientId],
                         message |-> [text |-> "Select a feature to learn more.",
                                      quick_replies |-> << >>]],
                        TemplateMessage(recipientId, templateElements) >>)
       ELSE Returned(<< TemplateMessage(recipientId, templateElements) >>)

\* part_001: fewer than two elements is logged and the function returns
P1_respondToHelpRequestWithTemplates(recipientId, requestForHelpOnFeature) ==
  LET templateElements == P1_templateElements(requestForHelpOnFeature)
  IN IF Len(templateElements) < 2
       THEN Returned(<< >>)
       ELSE Returned(<< TemplateMessage(recipientId, templateElements) >>)

-----------------------------------------------------------------------------
(* The top-level prompt                                                    *)

\* faulty variant: the Caption choice carries the token of the second Caption step
P0_sendHelpOptionsAsQuickReplies_wrongToken(recipientId) ==
  Returned(<< [recipient |-> [id |-> recipientId],
               message |->
                 [text |-> "Select a feature to learn more.",
                  quick_replies |->
                    << QuickReply("Rotation", "QR_ROTATION_1"),
                       QuickReply("Photo", "QR_PHOTO_1"),
                       QuickReply("Caption", "QR_CAPTION_2"),
                       QuickReply("Background", "QR_BACKGROUND_1") >>]] >>)

\* part_000
P0_sendHelpOptionsAsQuickReplies(recipientId) ==
  Returned(<< [recipient |-> [id |-> recipientId],
               message |->
                 [text |-> "Select a feature to learn more.",
                  quick_replies |->
                    << QuickReply("Rotation", "QR_ROTATION_1"),
                       QuickReply("Photo", "QR_PHOTO_1"),
                       QuickReply("Caption", "QR_CAPTION_1"),
                       QuickReply("Background", "QR_BACKGROUND_1") >>]] >>)

\* part_001
P1_sendHelpOptions(recipientId) ==
  Returned(<< [recipient |-> [id |-> recipientId],
               message |->
                 [text |-> "Select a feature to learn more.",
                  quick_replies |->
                    << QuickReply("Rotation", "QR_ROTATION_A"),
                       QuickReply("Photo", "QR_PHOTO_A"),
                       QuickReply("Poster Text", "QR_POSTER_TEXT_A"),
                       QuickReply("Background Color", "QR_BACKGROUND_COLOR_A") >>]] >>)

\* part_002 calls sendHelpOptions (lines 413 and 552) and declares no such
\* function: the call ends in a ReferenceError before anything is sent
P2_sendHelpOptions(recipientId) == Threw(<< >>, "ReferenceError")

-----------------------------------------------------------------------------
(* Linear replies                                                          *)

\* what one case of the switch does: textToSend, the url put in
\* attachment.payload ("" when the case leaves the attachment alone), the
\* payload given to quickReplies[1], and whether quickReplies.pop() runs and
\* quickReplies[0] is retitled
\* faulty variant: the case forgets to set quickReplies[1].payload
IntroCase_noContinuePayload(text, continue) ==
  [known |-> TRUE, textToSend |-> text, url |-> "", continue |-> "",
   pop |-> FALSE]
IntroCase(text, continue) ==
  [known |-> TRUE, textToSend |-> text, url |-> "", continue |-> continue,
   pop |-> FALSE]
PhotoCase(url, continue) ==
  [known |-> TRUE, textToSend |-> "", url |-> url, continue |-> continue,
   pop |-> FALSE]
\* faulty variant: the case forgets quickReplies.pop() and the new title
LastPhotoCase_noPop(url) ==
  [known |-> TRUE, textToSend |-> "", url |-> url, continue |-> "", pop |-> FALSE]
LastPhotoCase(url) ==
  [known |-> TRUE, textToSend |-> "", url |-> url, continue |-> "", pop |-> TRUE]
\* QR_RESTART and default: sendHelpOptions(recipientId); return
ToHelpOptions ==
  [known |-> FALSE, textToSend |-> "", url |-> "", continue |-> "", pop |-> FALSE]

\* the switch of part_002
P2_linearCase(helpRequestType) ==
  CASE helpRequestType = "QR_RESTART" -> ToHelpOptions
    [] helpRequestType = "QR_ROTATION_1" ->
         IntroCase("Click the Rotate button to toggle the poster's orientation between landscape and portrait mode.",
               "QR_ROTATION_2")
    [] helpRequestType = "QR_ROTATION_2" ->
         PhotoCase(IMG_BASE_PATH \o "01-rotate-landscape.png", "QR_ROTATION_3")
    [] helpRequestType = "QR_ROTATION_3" ->
         LastPhotoCase(IMG_BASE_PATH \o "02-rotate-portrait.png")
    [] helpRequestType = "QR_PHOTO_1" ->
         IntroCase("Click the Photo button to select an image to use on your poster. We recommend visiting https://unsplash.com/random from your device to seed your Downloads folder with some images before you get started.",
               "QR_PHOTO_2")
    [] helpRequestType = "QR_PHOTO_2" ->
         PhotoCase(IMG_BASE_PATH \o "03-photo-hover.png", "QR_PHOTO_3")
    [] helpRequestType = "QR_PHOTO_3" ->
         PhotoCase(IMG_BASE_PATH \o "04-photo-list.png", "QR_PHOTO_4")
    [] helpRequestType = "QR_PHOTO_4" ->
         LastPhotoCase(IMG_BASE_PATH \o "05-photo-selected.png")
    [] helpRequestType = "QR_CAPTION_1" ->
         IntroCase("Click the Text button to set the caption that appears at the bottom of the poster.",
               "QR_CAPTION_2")
    [] helpRequestType = "QR_CAPTION_2" ->
         PhotoCase(IMG_BASE_PATH \o "06-text-hover.png", "QR_CAPTION_3")
    [] helpRequestType = "QR_CAPTION_3" ->
         PhotoCase(IMG_BASE_PATH \o "07-text-mid-entry.png", "QR_CAPTION_4")
    [] helpRequestType = "QR_CAPTION_4" ->
         PhotoCase(IMG_BASE_PATH \o "08-text-entry-done.png", "QR_CAPTION_5")
    [] helpRequestType = "QR_CAPTION_5" ->
         LastPhotoCase(IMG_BASE_PATH \o "09-text-complete.png")
    [] helpRequestType = "QR_BACKGROUND_1" ->
         IntroCase("Click the Background button to select a background color for your poster.",
               "QR_BACKGROUND_2")
    [] helpRequestType = "QR_BACKGROUND_2" ->
         PhotoCase(IMG_BASE_PATH \o "10-background-picker-hover.png", "QR_BACKGROUND_3")
    [] helpRequestType = "QR_BACKGROUND_3" ->
         PhotoCase(IMG_BASE_PATH \o "11-background-picker-appears.png", "QR_BACKGROUND_4")
    [] helpRequestType = "QR_BACKGROUND_4" ->
         PhotoCase(IMG_BASE_PATH \o "12-background-picker-selection.png", "QR_BACKGROUND_5")
    [] helpRequestType = "QR_BACKGROUND_5" ->
         PhotoCase(IMG_BASE_PATH \o "13-background-picker-selection-made.png",
               "QR_BACKGROUND_6")
    [] helpRequestType = "QR_BACKGROUND_6" ->
         LastPhotoCase(IMG_BASE_PATH \o "14-background-changed.png")
    [] OTHER -> ToHelpOptions

\* the switch of part_001
P1_linearCase(helpRequestType) ==
  CASE helpRequestType = "QR_RESTART" -> ToHelpOptions
    [] helpRequestType = "QR_ROTATION_A" ->
         IntroCase("Click the Rotate button to toggle the poster's orientation between landscape and portrait mode.",
               "QR_ROTATION_B")
    [] helpRequestType = "QR_ROTATION_B" ->
         PhotoCase(P1_imgBasePath \o "01-rotate-landscape.png", "QR_ROTATION_C")
    [] helpRequestType = "QR_ROTATION_C" ->
         LastPhotoCase(P1_imgBasePath \o "02-rotate-portrait.png")
    [] helpRequestType = "QR_PHOTO_A" ->
         IntroCase("Click the Photo button to select an image to use on your poster. We recommend visiting https://unsplash.com/random from your device to seed your Downloads folder with some images before you get started.",
               "QR_PHOTO_B")
    [] helpRequestType = "QR_PHOTO_B" ->
         PhotoCase(P1_imgBasePath \o "03-photo-hover.png", "QR_PHOTO_C")
    [] helpRequestType = "QR_PHOTO_C" ->
         PhotoCase(P1_imgBasePath \o "04-photo-list.png", "QR_PHOTO_D")
    [] helpRequestType = "QR_PHOTO_D" ->
         LastPhotoCase(P1_imgBasePath \o "05-photo-selected.png")
    [] helpRequestType = "QR_POSTER_TEXT_A" ->
         IntroCase("Click the Text button to set the caption that appears at the bottom of the poster.",
               "QR_POSTER_TEXT_B")
    [] helpRequestType = "QR_POSTER_TEXT_B" ->
         PhotoCase(P1_imgBasePath \o "06-text-hover.png", "QR_POSTER_TEXT_C")
    [] helpRequestType = "QR_POSTER_TEXT_C" ->
         PhotoCase(P1_imgBasePath \o "07-text-mid-entry.png", "QR_POSTER_TEXT_D")
    [] helpRequestType = "QR_POSTER_TEXT_D" ->
         PhotoCase(P1_imgBasePath \o "08-text-entry-done.png", "QR_POSTER_TEXT_E")
    [] helpRequestType = "QR_POSTER_TEXT_E" ->
         LastPhotoCase(P1_imgBasePath \o "09-text-complete.png")
    [] helpRequestType = "QR_BACKGROUND_COLOR_A" ->
         IntroCase("Click the Background button to select a background color for your poster.",
               "QR_BACKGROUND_COLOR_B")
    [] helpRequestType = "QR_BACKGROUND_COLOR_B" ->
         PhotoCase(SERVER_URL \o "/assets/screenshots/10-background-picker-hover.png",
               "QR_BACKGROUND_COLOR_C")
    [] helpRequestType = "QR_BACKGROUND_COLOR_C" ->
         PhotoCase(SERVER_URL \o "/assets/screenshots/11-background-picker-appears.png",
               "QR_BACKGROUND_COLOR_D")
    [] helpRequestType = "QR_BACKGROUND_COLOR_D" ->
         PhotoCase(SERVER_URL \o "/assets/screenshots/12-background-picker-selection.png",
               "QR_BACKGROUND_COLOR_E")
    [] helpRequestType = "QR_BACKGROUND_COLOR_E" ->
         PhotoCase(SERVER_URL \o "/assets/screenshots/13-background-picker-selection-made.png",
               "QR_BACKGROUND_COLOR_F")
    [] helpRequestType = "QR_BACKGROUND_COLOR_F" ->
         LastPhotoCase(SERVER_URL \o "/assets/screenshots/14-background-changed.png")
    [] OTHER -> ToHelpOptions

\* faulty variant: pop() runs and quickReplies[0] keeps the title "Restart"
LinearQuickReplies_noRetitle(c) ==
  IF c.pop
    THEN << QuickReply("Restart", "QR_RESTART") >>
    ELSE << QuickReply("Restart", "QR_RESTART"),
            QuickReply("Continue", c.continue) >>

\* the quickReplies array after the switch: [Restart, Continue] with the
\* Continue payload set, or the single retitled Restart after pop()
LinearQuickReplies(c) ==
  IF c.pop
    THEN << QuickReply("Explore another feature", "QR_RESTART") >>
    ELSE << QuickReply("Restart", "QR_RESTART"),
            QuickReply("Continue", c.continue) >>

\* faulty variant: the attachment is added and the text field is not deleted
LinearMessage_keepsText(recipientId, c) ==
  IF c.url # ""
    THEN [recipient |-> [id |-> recipientId],
          message |-> [text |-> c.textToSend,
                       quick_replies |-> LinearQuickReplies(c),
                       attachment |-> [type |-> "image",
                                       payload |-> [url |-> c.url]]]]
    ELSE [recipient |-> [id |-> recipientId],
          message |-> [text |-> c.textToSend,
                       quick_replies |-> LinearQuickReplies(c)]]

\* faulty variant: the attachment is added and text is emptied, not deleted
LinearMessage_emptyText(recipientId, c) ==
  IF c.url # ""
    THEN [recipient |-> [id |-> recipientId],
          message |-> [text |-> "",
                       quick_replies |-> LinearQuickReplies(c),
                       attachment |-> [type |-> "image",
                                       payload |-> [url |-> c.url]]]]
    ELSE [recipient |-> [id |-> recipientId],
          message |-> [text |-> c.textToSend,
                       quick_replies |-> LinearQuickReplies(c)]]

\* messageData after the switch: text and quick_replies; when
\* attachment.payload was set, the attachment is added and text is deleted
LinearMessage(recipientId, c) ==
  IF c.url # ""
    THEN [recipient |-> [id |-> recipientId],
          message |-> [quick_replies |-> LinearQuickReplies(c),
                       attachment |-> [type |-> "image",
                                       payload |-> [url |-> c.url]]]]
    ELSE [recipient |-> [id |-> recipientId],
          message |-> [text |-> c.textToSend,
                       quick_replies |-> LinearQuickReplies(c)]]

P2_respondToHelpRequestWithLinearPhotos(recipientId, helpRequestType) ==
  LET c == P2_linearCase(helpRequestType)
  IN IF ~c.known
       THEN P2_sendHelpOptions(recipientId)
       ELSE Returned(<< LinearMessage(recipientId, c) >>)

P1_respondToHelpRequestWithLinearPhotos(recipientId, helpRequestType) ==
  LET c == P1_linearCase(helpRequestType)
  IN IF ~c.known
       THEN P1_sendHelpOptions(recipientId)
       ELSE Returned(<< LinearMessage(recipientId, c) >>)

-----------------------------------------------------------------------------
(* Messaging events                                                        *)

Has(object, field) == field \in DOMAIN object

\* event.sender.id and event.recipient.id are read first by every handler; an
\* event without sender or recipient makes that read a TypeError
ReadsIds(event) == Has(event, "sender") /\ Has(event, "recipient")

\* message.text is used when it is a non-empty string
HasText(message) == Has(message, "text") /\ message.text # ""

\* String.prototype.toLowerCase on the texts the model feeds in
toLowerCase(messageText) ==
  CASE messageText = "Help" -> "help"
    [] messageText = "HELP" -> "help"
    [] messageText = "Hello" -> "hello"
    [] OTHER -> messageText

-----------------------------------------------------------------------------
(* src/node/app.js                                                         *)

\* faulty variant: the text is sent back in lower case
App_processMessageFromPage_lowerCase(event) ==
  IF ~ReadsIds(event) THEN Threw(<< >>, "TypeError")
  ELSE IF HasText(event.message)
         THEN Returned(<< TextMessage(event.sender.id,
                                      toLowerCase(event.message.text)) >>)
         ELSE Returned(<< >>)

App_processMessageFromPage(event) ==
  IF ~ReadsIds(event) THEN Threw(<< >>, "TypeError")
  ELSE IF HasText(event.message)
         THEN Returned(<< TextMessage(event.sender.id, event.message.text) >>)
         ELSE Returned(<< >>)

\* logs the payload, sends nothing
App_processPostbackMessage(event) ==
  IF ~ReadsIds(event) THEN Threw(<< >>, "TypeError") ELSE Returned(<< >>)

\* the if / else-if chain of app.post('/webhook')
App_classify(messagingEvent) ==
  IF Has(messagingEvent, "message") THEN "message"
  ELSE IF Has(messagingEvent, "postback") THEN "postback"
  ELSE "unknown"

App_dispatch(messagingEvent) ==
  CASE App_classify(messagingEvent) = "message" ->
         App_processMessageFromPage(messagingEvent)
    [] App_classify(messagingEvent) = "postback" ->
         App_processPostbackMessage(messagingEvent)
    [] OTHER -> Returned(<< >>)

-----------------------------------------------------------------------------
(* src/unnamed/part_000                                                    *)

P0_handleQuickReplyResponse(event) ==
  P0_respondToHelpRequestWithTemplates(event.sender.id,
                                       event.message.quick_reply.payload)

\* faulty variant: the text is looked at before message.quick_reply
P0_processMessageFromPage_textFirst(event) ==
  IF ~ReadsIds(event) THEN Threw(<< >>, "TypeError")
  ELSE IF HasText(event.message) /\ toLowerCase(event.message.text) = "help"
         THEN P0_sendHelpOptionsAsQuickReplies(event.sender.id)
  ELSE IF Has(event.message, "quick_reply")
         THEN P0_handleQuickReplyResponse(event)
  ELSE IF HasText(event.message)
         THEN Returned(<< TextMessage(event.sender.id, event.message.text) >>)
         ELSE Returned(<< >>)

P0_processMessageFromPage(event) ==
  IF ~ReadsIds(event) THEN Threw(<< >>, "TypeError")
  ELSE IF Has(event.message, "quick_reply")
         THEN P0_handleQuickReplyResponse(event)
  ELSE IF HasText(event.message)
         THEN IF toLowerCase(event.message.text) = "help"
                THEN P0_sendHelpOptionsAsQuickReplies(event.sender.id)
                ELSE Returned(<< TextMessage(event.sender.id,
                                             event.message.text) >>)
         ELSE Returned(<< >>)

P0_processPostbackMessage(event) ==
  IF ~ReadsIds(event) THEN Threw(<< >>, "TypeError")
  ELSE P0_respondToHelpRequestWithTemplates(event.sender.id,
                                            event.postback.payload)

P0_classify(messagingEvent) ==
  IF Has(messagingEvent, "message") THEN "message"
  ELSE IF Has(messagingEvent, "postback") THEN "postback"
  ELSE "unknown"

P0_dispatch(messagingEvent) ==
  CASE P0_classify(messagingEvent) = "message" ->
         P0_processMessageFromPage(messagingEvent)
    [] P0_classify(messagingEvent) = "postback" ->
         P0_processPostbackMessage(messagingEvent)
    [] OTHER -> Returned(<< >>)

-----------------------------------------------------------------------------
(* src/unnamed/part_002                                                    *)

\* handleQuickReplyResponse calls one of the two responders; the call of the
\* other one is commented out (lines 205-209)
\* faulty variant: the commented sendTextMessage("You chose ...") is made too
P2_handleQuickReplyResponse_youChose(event, responder) ==
  LET r == P2_respondToHelpRequestWithTemplates(event.sender.id,
                                                event.message.quick_reply.payload)
  IN [calls |-> << TextMetadataMessage(event.sender.id, "You chose") >> \o r.calls,
      threw |-> r.threw]

P2_handleQuickReplyResponse(event, responder) ==
  IF responder = LinearPhotos
    THEN P2_respondToHelpRequestWithLinearPhotos(event.sender.id,
                                                 event.message.quick_reply.payload)
    ELSE P2_respondToHelpRequestWithTemplates(event.sender.id,
                                              event.message.quick_reply.payload)

P2_receivedMessage(event, responder) ==
  IF ~ReadsIds(event) THEN Threw(<< >>, "TypeError")
  ELSE IF Has(event.message, "quick_reply")
         THEN P2_handleQuickReplyResponse(event, responder)
  ELSE IF HasText(event.message)
         THEN Returned(<< TextMetadataMessage(event.sender.id,
                                              event.message.text) >>)
         ELSE Returned(<< >>)

\* logs the message ids and the watermark, sends nothing
P2_receivedDeliveryConfirmation(event) ==
  IF ~ReadsIds(event) THEN Threw(<< >>, "TypeError") ELSE Returned(<< >>)

\* faulty variant: the reply goes to event.recipient.id
P2_receivedPostback_toRecipient(event) ==
  IF ~ReadsIds(event) THEN Threw(<< >>, "TypeError")
  ELSE P2_respondToHelpRequestWithTemplates(event.recipient.id,
                                            event.postback.payload)

P2_receivedPostback(event) ==
  IF ~ReadsIds(event) THEN Threw(<< >>, "TypeError")
  ELSE P2_respondToHelpRequestWithTemplates(event.sender.id,
                                            event.postback.payload)

\* faulty variant: the else branch raises
P2_dispatch_unknownThrows(messagingEvent, responder) ==
  IF Has(messagingEvent, "message")
    THEN P2_receivedMessage(messagingEvent, responder)
  ELSE IF Has(messagingEvent, "delivery")
    THEN P2_receivedDeliveryConfirmation(messagingEvent)
  ELSE IF Has(messagingEvent, "postback")
    THEN P2_receivedPostback(messagingEvent)
  ELSE Threw(<< >>, "TypeError")

\* faulty variant: a message that follows a message in the same callback is
\* taken for a repetition and skipped
P2_classify_remembering(messagingEvent) ==
  IF Has(messagingEvent, "message")
    THEN (IF tags # << >> /\ tags[Len(tags)] = "message" THEN "unknown"
          ELSE "message")
  ELSE IF Has(messagingEvent, "delivery") THEN "delivery"
  ELSE IF Has(messagingEvent, "postback") THEN "postback"
  ELSE "unknown"

P2_classify(messagingEvent) ==
  IF Has(messagingEvent, "message") THEN "message"
  ELSE IF Has(messagingEvent, "delivery") THEN "delivery"
  ELSE IF Has(messagingEvent, "postback") THEN "postback"
  ELSE "unknown"

P2_dispatch(messagingEvent, responder) ==
  CASE P2_classify(messagingEvent) = "message" ->
         P2_receivedMessage(messagingEvent, responder)
    [] P2_classify(messagingEvent) = "delivery" ->
         P2_receivedDeliveryConfirmation(messagingEvent)
    [] P2_classify(messagingEvent) = "postback" ->
         P2_receivedPostback(messagingEvent)
    [] OTHER -> Returned(<< >>)

-----------------------------------------------------------------------------
(* src/unnamed/part_001                                                    *)

\* sendImageMessage, sendGifMessage, sendAudioMessage, sendVideoMessage,
\* sendFileMessage: one attachment of the given type and asset
P1_sendMediaMessage(recipientId, type, asset) ==
  Returned(<< [recipient |-> [id |-> recipientId],
               message |-> [attachment |->
                              [type |-> type,
                               payload |-> [url |-> SERVER_URL \o asset]]]] >>)

P1_sendTextMessage(recipientId, messageText) ==
  Returned(<< TextMetadataMessage(recipientId, messageText) >>)

P1_sendButtonMessage(recipientId) ==
  Returned(<< [recipient |-> [id |-> recipientId],
               message |-> [attachment |->
                 [type |-> "template",
                  payload |->
                    [template_type |-> "button",
                     text |-> "This is test text",
                     buttons |->
                       << [type |-> "web_url", title |-> "Open Web URL",
                           url |-> "https://www.oculus.com/en-us/rift/"],
                          [type |-> "postback", title |-> "Trigger Postback",
                           payload |-> "DEVELOPER_DEFINED_PAYLOAD"],
                          [type |-> "phone_number", title |-> "Call Phone Number",
                           payload |-> "+16505551234"] >>]]]] >>)

P1_sendGenericMessage(recipientId) ==
  Returned(<< [recipient |-> [id |-> recipientId],
               message |-> [attachment |->
                 [type |-> "template",
                  payload |->
                    [template_type |-> "generic",
                     elements |->
                       << [title |-> "rift",
                           subtitle |-> "Next-generation virtual reality",
                           item_url |-> "https://www.oculus.com/en-us/rift/",
                           image_url |-> SERVER_URL \o "/assets/rift.png",
                           buttons |->
                             << [type |-> "web_url", title |-> "Open Web URL",
                                 url |-> "https://www.oculus.com/en-us/rift/"],
                                [type |-> "postback", title |-> "Call Postback",
                                 payload |-> "Payload for first bubble"] >>],
                          [title |-> "touch",
                           subtitle |-> "Your Hands, Now in VR",
                           item_url |-> "https://www.oculus.com/en-us/touch/",
                           image_url |-> SERVER_URL \o "/assets/touch.png",
                           buttons |->
                             << [type |-> "web_url", title |-> "Open Web URL",
                                 url |-> "https://www.oculus.com/en-us/touch/"],
                                [type |-> "postback", title |-> "Call Postback",
                                 payload |-> "Payload for second bubble"] >>] >>]]]] >>)

\* receiptId is "order" followed by Math.floor(Math.random()*1000); `random`
\* is that number
P1_sendReceiptMessage(recipientId, random) ==
  Returned(<< [recipient |-> [id |-> recipientId],
               message |-> [attachment |->
                 [type |-> "template",
                  payload |->
                    [template_type |-> "receipt",
                     recipient_name |-> "Peter Chang",
                     order_number |-> <<"order", random>>,
                     currency |-> "USD",
                     payment_method |-> "Visa 1234",
                     timestamp |-> "1428444852",
                     elements |->
                       << [title |-> "Oculus Rift", quantity |-> 1,
                           image_url |-> SERVER_URL \o "/assets/riftsq.png"],
                          [title |-> "Samsung Gear VR", quantity |-> 1,
                           image_url |-> SERVER_URL \o "/assets/gearvrsq.png"] >>]]]] >>)

\* sendReadReceipt, sendTypingOn, sendTypingOff
P1_sendSenderAction(recipientId, action) ==
  Returned(<< [recipient |-> [id |-> recipientId], sender_action |-> action] >>)

P1_sendAccountLinking(recipientId) ==
  Returned(<< [recipient |-> [id |-> recipientId],
               message |-> [attachment |->
                 [type |-> "template",
                  payload |->
                    [template_type |-> "button",
                     text |-> "Welcome. Link your account.",
                     buttons |-> << [type |-> "account_link",
                                     url |-> SERVER_URL \o "/authorize"] >>]]]] >>)

\* handleQuickReplyResponse calls one of the two responders; the call of the
\* other one is commented out (lines 373-377)
P1_handleQuickReplyResponse(event, responder) ==
  IF responder = LinearPhotos
    THEN P1_respondToHelpRequestWithLinearPhotos(event.sender.id,
                                                 event.message.quick_reply.payload)
    ELSE P1_respondToHelpRequestWithTemplates(event.sender.id,
                                              event.message.quick_reply.payload)

\* the switch over messageText (exact match, no case folding)
P1_textCommand(senderID, messageText, random) ==
  CASE messageText = "image" -> P1_sendMediaMessage(senderID, "image", "/assets/rift.png")
    [] messageText = "gif" ->
         P1_sendMediaMessage(senderID, "image", "/assets/instagram_logo.gif")
    [] messageText = "audio" -> P1_sendMediaMessage(senderID, "audio", "/assets/sample.mp3")
    [] messageText = "video" ->
         P1_sendMediaMessage(senderID, "video", "/assets/allofus480.mov")
    [] messageText = "file" -> P1_sendMediaMessage(senderID, "file", "/assets/test.txt")
    [] messageText = "button" -> P1_sendButtonMessage(senderID)
    [] messageText = "generic" -> P1_sendGenericMessage(senderID)
    [] messageText = "receipt" -> P1_sendReceiptMessage(senderID, random)
    [] messageText = "help" -> P1_sendHelpOptions(senderID)
    [] messageText = "read receipt" -> P1_sendSenderAction(senderID, "mark_seen")
    [] messageText = "typing on" -> P1_sendSenderAction(senderID, "typing_on")
    [] messageText = "typing off" -> P1_sendSenderAction(senderID, "typing_off")
    [] messageText = "account linking" -> P1_sendAccountLinking(senderID)
    [] OTHER -> P1_sendTextMessage(senderID, messageText)

P1_receivedMessage(event, responder, random) ==
  IF ~ReadsIds(event) THEN Threw(<< >>, "TypeError")
  ELSE IF Has(event.message, "is_echo") /\ event.message.is_echo
         THEN Returned(<< >>)
  ELSE IF Has(event.message, "quick_reply")
         THEN P1_handleQuickReplyResponse(event, responder)
  ELSE IF HasText(event.message)
         THEN P1_textCommand(event.sender.id, event.message.text, random)
  ELSE IF Has(event.message, "attachments")
         THEN P1_sendTextMessage(event.sender.id,
                                 "Message with attachment received")
         ELSE Returned(<< >>)

\* receivedAuthentication is commented out (lines 183-202) and still called
\* by the dispatch chain (line 97): the call is a ReferenceError
P1_receivedAuthentication(event) == Threw(<< >>, "ReferenceError")

\* receivedDeliveryConfirmation, receivedMessageRead, receivedAccountLink:
\* read the ids, log, send nothing
P1_receivedLogOnly(event) ==
  IF ~ReadsIds(event) THEN Threw(<< >>, "TypeError") ELSE Returned(<< >>)

P1_receivedPostback(event) ==
  IF ~ReadsIds(event) THEN Threw(<< >>, "TypeError")
  ELSE P1_respondToHelpRequestWithTemplates(event.sender.id,
                                            event.postback.payload)

\* faulty variant: message and postback are tested first, optin last
P1_classify_messageFirst(messagingEvent) ==
  IF Has(messagingEvent, "message") THEN "message"
  ELSE IF Has(messagingEvent, "postback") THEN "postback"
  ELSE IF Has(messagingEvent, "delivery") THEN "delivery"
  ELSE IF Has(messagingEvent, "read") THEN "read"
  ELSE IF Has(messagingEvent, "account_linking") THEN "account_linking"
  ELSE IF Has(messagingEvent, "optin") THEN "optin"
  ELSE "unknown"

P1_classify(messagingEvent) ==
  IF Has(messagingEvent, "optin") THEN "optin"
  ELSE IF Has(messagingEvent, "message") THEN "message"
  ELSE IF Has(messagingEvent, "delivery") THEN "delivery"
  ELSE IF Has(messagingEvent, "postback") THEN "postback"
  ELSE IF Has(messagingEvent, "read") THEN "read"
  ELSE IF Has(messagingEvent, "account_linking") THEN "account_linking"
  ELSE "unknown"

P1_dispatch(messagingEvent, responder, random) ==
  CASE P1_classify(messagingEvent) = "optin" ->
         P1_receivedAuthentication(messagingEvent)
    [] P1_classify(messagingEvent) = "message" ->
         P1_receivedMessage(messagingEvent, responder, random)
    [] P1_classify(messagingEvent) = "postback" ->
         P1_receivedPostback(messagingEvent)
    [] P1_classify(messagingEvent) \in {"delivery", "read", "account_linking"} ->
         P1_receivedLogOnly(messagingEvent)
    [] OTHER -> Returned(<< >>)

-----------------------------------------------------------------------------
(* app.post('/webhook')                                                    *)

\* the dispatch chain of the running server file
classify(v, messagingEvent) ==
  CASE v = "app" -> App_classify(messagingEvent)
    [] v = "part_000" -> P0_classify(messagingEvent)
    [] v = "part_001" -> P1_classify(messagingEvent)
    [] v = "part_002" -> P2_classify(messagingEvent)

dispatch(v, responder, messagingEvent, random) ==
  CASE v = "app" -> App_dispatch(messagingEvent)
    [] v = "part_000" -> P0_dispatch(messagingEvent)
    [] v = "part_001" -> P1_dispatch(messagingEvent, responder, random)
    [] v = "part_002" -> P2_dispatch(messagingEvent, responder)

\* pageEntry.messaging.forEach on an entry that has no messaging list is a
\* TypeError
noMessaging(entry) == \E i \in DOMAIN entry : ~Has(entry[i], "messaging")

\* faulty variant: the entries are gone through from the last to the first
RECURSIVE messagingEvents_lastEntryFirst(_)
messagingEvents_lastEntryFirst(entry) ==
  IF entry = << >> \/ ~Has(Head(entry), "messaging") THEN << >>
  ELSE messagingEvents_lastEntryFirst(Tail(entry)) \o Head(entry).messaging

\* data.entry.forEach(pageEntry => pageEntry.messaging.forEach(...)): the
\* events the loops reach, in order: those of all entries, or of the entries
\* before the first one without a messaging list
RECURSIVE messagingEvents(_)
messagingEvents(entry) ==
  IF entry = << >> \/ ~Has(Head(entry), "messaging") THEN << >>
  ELSE Head(entry).messaging \o messagingEvents(Tail(entry))

\* the two nested forEach loops: each event is dispatched in turn; an
\* exception leaves both loops, the sends made before it stay made
RECURSIVE forEach(_, _, _, _)
forEach(v, responder, events, randoms) ==
  IF events = << >> THEN Returned(<< >>)
  ELSE LET first == dispatch(v, responder, Head(events), Head(randoms))
       IN IF first.threw # "" THEN first
          ELSE LET rest == forEach(v, responder, Tail(events), Tail(randoms))
               IN [calls |-> first.calls \o rest.calls, threw |-> rest.threw]

\* the handler: sends made, exception, and the status given to
\* res.sendStatus (0 when the handler ends without calling it)
ended(calls, exception) ==
  [calls |-> calls, threw |-> exception,
   status |-> IF exception = "" THEN 200 ELSE 0]

loops(r, entry) ==
  ended(r.calls, IF r.threw = "" /\ noMessaging(entry) THEN "TypeError"
                 ELSE r.threw)

webhook(v, responder, data, randoms) ==
  IF data.object = "page"
    THEN loops(forEach(v, responder, messagingEvents(data.entry), randoms),
               data.entry)
    ELSE [calls |-> << >>, threw |-> "", status |-> 0]

-----------------------------------------------------------------------------
(* Inputs                                                                  *)

MaxBatch == 2     \* most events in one callback that is not a single event
MaxWalk == 8      \* most Continue taps followed in a row

Users == {"U1", "U2"}

\* the case labels of the linear switch, per topic, in the order of the file
P2_steps ==
  [Rotation |-> << "QR_ROTATION_1", "QR_ROTATION_2", "QR_ROTATION_3" >>,
   Photo |-> << "QR_PHOTO_1", "QR_PHOTO_2", "QR_PHOTO_3", "QR_PHOTO_4" >>,
   Caption |-> << "QR_CAPTION_1", "QR_CAPTION_2", "QR_CAPTION_3", "QR_CAPTION_4",
                  "QR_CAPTION_5" >>,
   Background |-> << "QR_BACKGROUND_1", "QR_BACKGROUND_2", "QR_BACKGROUND_3",
                     "QR_BACKGROUND_4", "QR_BACKGROUND_5", "QR_BACKGROUND_6" >>]

P1_steps ==
  [Rotation |-> << "QR_ROTATION_A", "QR_ROTATION_B", "QR_ROTATION_C" >>,
   Photo |-> << "QR_PHOTO_A", "QR_PHOTO_B", "QR_PHOTO_C", "QR_PHOTO_D" >>,
   Caption |-> << "QR_POSTER_TEXT_A", "QR_POSTER_TEXT_B", "QR_POSTER_TEXT_C",
                  "QR_POSTER_TEXT_D", "QR_POSTER_TEXT_E" >>,
   Background |-> << "QR_BACKGROUND_COLOR_A", "QR_BACKGROUND_COLOR_B",
                     "QR_BACKGROUND_COLOR_C", "QR_BACKGROUND_COLOR_D",
                     "QR_BACKGROUND_COLOR_E", "QR_BACKGROUND_COLOR_F" >>]

Topics == {"Rotation", "Photo", "Caption", "Background"}

\* the step tokens of the running file (part_000 and app.js name the topics as
\* part_002 does)
steps(v) == IF v = "part_001" THEN P1_steps ELSE P2_steps

Range(f) == {f[x] : x \in DOMAIN f}

\* payloads fed in: every token of the running file, the restart token, a token
\* of the other naming, and strings that are no token at all
Payloads(v) ==
  UNION {Range(steps(v)[t]) : t \in Topics}
    \cup {"QR_RESTART", "DEVELOPER_DEFINED_PAYLOAD", ""}
    \cup (IF v = "part_001" THEN {"QR_ROTATION_1"} ELSE {"QR_ROTATION_A"})

Texts ==
  {"help", "Help", "HELP", "hello", "Hello", "image", "gif", "audio", "video",
   "file", "button", "generic", "receipt", "read receipt", "typing on",
   "typing off", "account linking", "QR_ROTATION_1"}

FromUser(user, body) ==
  [sender |-> [id |-> user], recipient |-> [id |-> PAGE_ID]] @@ body

TextEvent(user, text) == FromUser(user, [message |-> [mid |-> "m", text |-> text]])

QuickReplyEvent(user, title, payload) ==
  FromUser(user, [message |-> [mid |-> "m", text |-> title,
                               quick_reply |-> [payload |-> payload]]])

PostbackEvent(user, payload) == FromUser(user, [postback |-> [payload |-> payload]])

\* the fields the dispatch chains test, and a body for each
VariantFields ==
  {"message", "postback", "delivery", "read", "account_linking", "optin"}

FieldBody(v, f) ==
  CASE f = "message" -> [mid |-> "m", text |-> "hello"]
    [] f = "postback" -> [payload |-> steps(v).Rotation[1]]
    [] f = "delivery" -> [watermark |-> 1]
    [] f = "read" -> [watermark |-> 1]
    [] f = "account_linking" -> [status |-> "linked"]
    [] f = "optin" -> [ref |-> "r"]

\* events with two of those fields populated
TwoFieldEvents(v) ==
  {FromUser("U1", (f :> FieldBody(v, f)) @@ (g :> FieldBody(v, g))) :
     f \in VariantFields, g \in VariantFields}

\* single events of every shape the platform delivers
Events(v) ==
  {TextEvent("U1", t) : t \in Texts}
    \cup TwoFieldEvents(v)
    \cup {QuickReplyEvent("U1", "tap", p) : p \in Payloads(v)}
    \cup {QuickReplyEvent("U1", t, steps(v).Photo[1]) : t \in {"help", "hello"}}
    \cup {PostbackEvent("U1", p) : p \in Payloads(v)}
    \cup {FromUser("U1", [message |-> [mid |-> "m", is_echo |-> TRUE,
                                       text |-> "help"]]),
          FromUser("U1", [message |-> [mid |-> "m", is_echo |-> TRUE,
                                       text |-> "hello"]]),
          FromUser("U1", [message |-> [mid |-> "m", attachments |-> "photo"]]),
          FromUser("U1", [message |-> [mid |-> "m"]]),
          FromUser("U1", [delivery |-> [watermark |-> 1]]),
          FromUser("U1", [read |-> [watermark |-> 1]]),
          FromUser("U1", [account_linking |-> [status |-> "linked"]]),
          FromUser("U1", [optin |-> [ref |-> "r"]]),
          FromUser("U1", [standby |-> "s"]),
          [message |-> [mid |-> "m", text |-> "hello"]],
          [sender |-> [id |-> "U1"], message |-> [mid |-> "m", text |-> "hello"]],
          [recipient |-> [id |-> PAGE_ID], delivery |-> [watermark |-> 1]],
          FromUser("U1", [message |-> [mid |-> "m", text |-> "help"],
                          postback |-> [payload |-> "QR_RESTART"]])}

\* events put together in callbacks of more than one event
BatchEvents(v) ==
  {TextEvent("U2", "help"),
   QuickReplyEvent("U1", "tap", steps(v).Photo[1]),
   PostbackEvent("U2", "DEVELOPER_DEFINED_PAYLOAD"),
   FromUser("U1", [delivery |-> [watermark |-> 1]]),
   FromUser("U2", [optin |-> [ref |-> "r"]]),
   [message |-> [mid |-> "m", text |-> "hello"]]}

SeqsOfLen(S, n) == [1..n -> S]

Page(entry) == [object |-> "page", entry |-> entry]
Entry(messaging) == [id |-> PAGE_ID, messaging |-> messaging]

\* callbacks: page envelopes with one event, with several events in one entry,
\* with one event in each of several entries, with an entry that has no
\* messaging list, and an envelope of another kind
Callbacks(v) ==
  {Page(<< Entry(<< e >>) >>) : e \in Events(v)}
    \cup UNION {{Page(<< Entry(es) >>) : es \in SeqsOfLen(BatchEvents(v), n)} :
                n \in 2..MaxBatch}
    \cup UNION {{Page([i \in 1..n |-> Entry(<< es[i] >>)]) :
                  es \in SeqsOfLen(BatchEvents(v), n)} : n \in 2..MaxBatch}
    \cup {Page(<< [id |-> PAGE_ID] >>),
          Page(<< Entry(<< TextEvent("U1", "hello") >>), [id |-> PAGE_ID],
                  Entry(<< TextEvent("U2", "hello") >>) >>)}
    \cup {[object |-> "group", entry |-> << Entry(<< TextEvent("U1", "help") >>) >>]}

\* Math.random runs once per "receipt" text message (part_001 only)
ReceiptNumbers == {0, 999}

DrawsRandom(v, event) ==
  /\ v = "part_001"
  /\ classify(v, event) = "message"
  /\ ReadsIds(event)
  /\ ~(Has(event.message, "is_echo") /\ event.message.is_echo)
  /\ ~Has(event.message, "quick_reply")
  /\ HasText(event.message) /\ event.message.text = "receipt"

Randoms(v, events) ==
  {r \in SeqsOfLen(ReceiptNumbers, Len(events)) :
     \A i \in 1..Len(events) : ~DrawsRandom(v, events[i]) => r[i] = 0}

-----------------------------------------------------------------------------
(* State machine                                                           *)

\* the responder called by handleQuickReplyResponse: the carousel responder as
\* the files stand, the linear one with the commented call swapped in
Responders(v) ==
  IF v \in {"part_001", "part_002"} THEN {Templates, LinearPhotos} ELSE {Templates}

NoRequest == [object |-> "", entry |-> << >>]

\* no POST /webhook request has come in yet
NoPost ==
  /\ signature = [present |-> FALSE]
  /\ rawBody = ""
  /\ verdict = ""
  /\ running = FALSE
  /\ dispatched = 0
  /\ completed = 0
  /\ tags = << >>
  /\ sendlog = << >>

\* no GET /webhook request has come in yet
NoGet ==
  /\ query = << >>
  /\ getres = [status |-> 0, body |-> ""]

\* the four values read from the environment or from config/default.json
ConfigKeys == {"appSecret", "validationToken", "pageAccessToken", "serverURL"}

PAGE_ACCESS_TOKEN == "pageAccessToken"

\* the value each key has when it is set
ConfigValue ==
  [appSecret |-> APP_SECRET, validationToken |-> VALIDATION_TOKEN,
   pageAccessToken |-> PAGE_ACCESS_TOKEN, serverURL |-> SERVER_URL]

\* part_001 and part_002 look at process.env first (MESSENGER_APP_SECRET,
\* MESSENGER_VALIDATION_TOKEN, MESSENGER_PAGE_ACCESS_TOKEN, SERVER_URL);
\* part_000 and app.js read config only
readsEnv(v) == v \in {"part_001", "part_002"}

\* config.get(key): the value of the key in config/default.json; node-config
\* throws when the key is not defined
configGet(file, key) ==
  IF Has(file, key) THEN [threw |-> "", value |-> file[key]]
  ELSE [threw |-> "Error", value |-> ""]

\* (process.env.X) ? process.env.X : config.get(key)
setting(v, cfg, key) ==
  IF readsEnv(v) /\ Has(cfg.env, key) /\ cfg.env[key] # ""
    THEN [threw |-> "", value |-> cfg.env[key]]
    ELSE configGet(cfg.file, key)

\* faulty variant: SERVER_URL is left out of the test
configured_withoutServerUrl(values) ==
  values.appSecret # "" /\ values.validationToken # ""
    /\ values.pageAccessToken # ""

\* APP_SECRET && VALIDATION_TOKEN && PAGE_ACCESS_TOKEN && SERVER_URL
configured(values) ==
  values.appSecret # "" /\ values.validationToken # ""
    /\ values.pageAccessToken # "" /\ values.serverURL # ""

\* the module runs from its first line: the four constants are read, the test
\* calls process.exit(1) when one of them is empty, otherwise the routes are
\* set up and app.listen is called
start(v, cfg) ==
  IF \E key \in ConfigKeys : setting(v, cfg, key).threw # "" THEN "crashed"
  ELSE IF configured([key \in ConfigKeys |-> setting(v, cfg, key).value])
    THEN "listening"
  ELSE "exited"

\* every value is set in config/default.json and the environment sets none
FullConfig(secret) ==
  [env |-> << >>,
   file |-> [ConfigValue EXCEPT !.appSecret = secret]]

\* the process came up with every value configured and listens
Listening ==
  /\ config = FullConfig(appSecret)
  /\ process = "listening"

Init ==
  /\ variant \in Variants
  /\ mode \in Responders(variant)
  /\ req = NoRequest
  /\ outbox = << >>
  /\ res = 0
  /\ threw = ""
  /\ walk = << >>
  /\ appSecret = APP_SECRET
  /\ NoPost
  /\ NoGet
  /\ Listening

\* one POST /webhook request that passed the verifier, handled from start to
\* end
Handled(data, r) ==
  /\ process = "listening"
  /\ req' = data
  /\ outbox' = r.calls
  /\ res' = r.status
  /\ threw' = r.threw
  /\ UNCHANGED <<variant, mode>>
  /\ UNCHANGED httpvars
  /\ UNCHANGED startvars

Handle(data, randoms) == Handled(data, webhook(variant, mode, data, randoms))

IsQuickReplyTap(data) ==
  /\ data.object = "page"
  /\ Len(messagingEvents(data.entry)) = 1
  /\ Has(messagingEvents(data.entry)[1], "message")
  /\ Has(messagingEvents(data.entry)[1].message, "quick_reply")

\* the platform posts a callback
PostWebhook ==
  \E data \in Callbacks(variant) :
    \E randoms \in Randoms(variant, messagingEvents(data.entry)) :
      /\ Handle(data, randoms)
      /\ walk' = IF IsQuickReplyTap(data)
                   THEN << messagingEvents(data.entry)[1].message.quick_reply.payload >>
                   ELSE << >>

\* the quick replies offered by the last message sent for the last request
OfferedQuickReplies ==
  IF outbox # << >> /\ Has(outbox[Len(outbox)], "message")
       /\ Has(outbox[Len(outbox)].message, "quick_replies")
    THEN outbox[Len(outbox)].message.quick_replies
    ELSE << >>

\* the buttons of the cards of the last message sent for the last request
OfferedButtons ==
  IF outbox # << >> /\ Has(outbox[Len(outbox)], "message")
       /\ Has(outbox[Len(outbox)].message, "attachment")
       /\ outbox[Len(outbox)].message.attachment.type = "template"
       /\ outbox[Len(outbox)].message.attachment.payload.template_type = "generic"
    THEN UNION {Range(card.buttons) :
                  card \in Range(outbox[Len(outbox)].message.attachment.payload.elements)}
    ELSE {}

\* the user taps a quick reply of the last message: the platform posts a
\* message whose text is the title and whose quick_reply is the payload
TapQuickReply ==
  \E i \in DOMAIN OfferedQuickReplies :
    LET choice == OfferedQuickReplies[i]
        user == outbox[Len(outbox)].recipient.id
    IN /\ Len(walk) < MaxWalk
       /\ Handle(Page(<< Entry(<< QuickReplyEvent(user, choice.title,
                                                  choice.payload) >>) >>),
                 << 0 >>)
       /\ walk' = IF choice.title = "Continue"
                    THEN Append(walk, choice.payload)
                    ELSE << choice.payload >>

\* the user taps a postback button of a card of the last message
TapButton ==
  \E button \in {b \in OfferedButtons : b.type = "postback"} :
    /\ Handle(Page(<< Entry(<< PostbackEvent(outbox[Len(outbox)].recipient.id,
                                             button.payload) >>) >>),
              << 0 >>)
    /\ walk' = << >>

Next == PostWebhook \/ TapQuickReply \/ TapButton

Spec == Init /\ [][Next]_vars

-----------------------------------------------------------------------------
(* Request signature: the verify hook of bodyParser.json                   *)

\* A string that the code takes apart is a sequence of symbols: a method name
\* is one symbol, "=" is one symbol, a hex digit is one symbol.
Hex == << "0", "f" >>
DigestLen == 2      \* hex digits of a digest
Methods == {"sha1", "md5"}
Secrets == {APP_SECRET, "otherSecret"}
Digests == SeqsOfLen(Range(Hex), DigestLen)

\* the raw bodies posted, in a fixed order
RawBodies ==
  << "hello", "two", "entries", "group", "nosender", "optin", "mixed",
     "headless", "nolist", "unknown", "samples" >>

\* req.body: bodyParser.json's parse of the raw body
JSONparse(buf) ==
  CASE buf = "hello" -> Page(<< Entry(<< TextEvent("U1", "hello") >>) >>)
    [] buf = "two" ->
         Page(<< Entry(<< TextEvent("U1", "hello"), TextEvent("U2", "Hello") >>) >>)
    [] buf = "entries" ->
         Page(<< Entry(<< TextEvent("U1", "hello") >>),
                 Entry(<< PostbackEvent("U2", "QR_ROTATION_1"),
                          TextEvent("U2", "hello") >>) >>)
    [] buf = "group" ->
         [object |-> "group", entry |-> << Entry(<< TextEvent("U1", "help") >>) >>]
    [] buf = "nosender" ->
         Page(<< Entry(<< TextEvent("U1", "hello"),
                          [message |-> [mid |-> "m", text |-> "hello"]] >>) >>)
    [] buf = "optin" ->
         Page(<< Entry(<< FromUser("U1", [optin |-> [ref |-> "r"]]),
                          TextEvent("U2", "hello") >>) >>)
    [] buf = "mixed" ->
         Page(<< Entry(<< FromUser("U1", [standby |-> "s"]),
                          QuickReplyEvent("U2", "tap", "QR_PHOTO_1"),
                          FromUser("U1", [delivery |-> [watermark |-> 1],
                                          postback |-> [payload |-> "QR_RESTART"]]) >>) >>)
    [] buf = "headless" ->
         Page(<< Entry(<< [message |-> [mid |-> "m", text |-> "hello"]],
                          TextEvent("U1", "hello") >>) >>)
    [] buf = "nolist" ->
         Page(<< Entry(<< TextEvent("U1", "hello") >>), [id |-> PAGE_ID] >>)
    [] buf = "samples" ->
         Page(<< Entry(<< TextEvent("U2", "generic"),
                          TextEvent("U1", "typing on") >>),
                 Entry(<< PostbackEvent("U2", "QR_ROTATION_1") >>) >>)
    [] buf = "unknown" ->
         Page(<< Entry(<< FromUser("U1", [standby |-> "s"]),
                          [standby |-> "s"] >>) >>)

\* crypto.createHmac('sha1', secret).update(buf).digest('hex'): a fixed
\* function of key and message to DigestLen hex digits
createHmac(secret, buf) ==
  LET k == IF secret = APP_SECRET THEN 1 ELSE 2
      b == CHOOSE i \in DOMAIN RawBodies : RawBodies[i] = buf
  IN [i \in 1..DigestLen |-> Hex[((k * i + b) % Len(Hex)) + 1]]

\* String.prototype.split: the pieces between the separators, in order
RECURSIVE split(_, _)
split(string, separator) ==
  IF \A i \in DOMAIN string : string[i] # separator
    THEN << string >>
    ELSE LET at == CHOOSE i \in DOMAIN string :
                     /\ string[i] = separator
                     /\ \A j \in 1..(i - 1) : string[j] # separator
         IN << SubSeq(string, 1, at - 1) >>
              \o split(SubSeq(string, at + 1, Len(string)), separator)

\* faulty variant: a digest that does not match is logged like a missing one
verifyRequestSignature_logsMismatch(sig, buf, secret) ==
  IF ~sig.present \/ sig.value = << >>
    THEN [threw |-> FALSE, logged |-> TRUE]
    ELSE LET elements == split(sig.value, "=")
         IN IF Len(elements) < 2 \/ elements[2] # createHmac(secret, buf)
              THEN [threw |-> FALSE, logged |-> TRUE]
              ELSE [threw |-> FALSE, logged |-> FALSE]

\* faulty variant: only the first digit of the digest is compared
verifyRequestSignature_firstDigit(sig, buf, secret) ==
  IF ~sig.present \/ sig.value = << >>
    THEN [threw |-> FALSE, logged |-> TRUE]
    ELSE LET elements == split(sig.value, "=")
         IN IF \/ Len(elements) < 2
               \/ elements[2] = << >>
               \/ elements[2][1] # createHmac(secret, buf)[1]
              THEN [threw |-> TRUE, logged |-> FALSE]
              ELSE [threw |-> FALSE, logged |-> FALSE]

\* faulty variant: a method other than sha1 is refused
verifyRequestSignature_checksMethod(sig, buf, secret) ==
  IF ~sig.present \/ sig.value = << >>
    THEN [threw |-> FALSE, logged |-> TRUE]
    ELSE LET elements == split(sig.value, "=")
         IN IF \/ Len(elements) < 2
               \/ elements[1] # << "sha1" >>
               \/ elements[2] # createHmac(secret, buf)
              THEN [threw |-> TRUE, logged |-> FALSE]
              ELSE [threw |-> FALSE, logged |-> FALSE]

\* verifyRequestSignature(req, res, buf): sig is req.headers["x-hub-signature"]
\* (absent, or a string). A missing or empty header is logged and the function
\* returns; otherwise elements[1] (undefined when the header holds no "=") is
\* compared with the expected hash and a difference throws.
verifyRequestSignature(sig, buf, secret) ==
  IF ~sig.present \/ sig.value = << >>
    THEN [threw |-> FALSE, logged |-> TRUE]
    ELSE LET elements == split(sig.value, "=")
             expectedHash == createHmac(secret, buf)
         IN IF Len(elements) < 2 \/ elements[2] # expectedHash
              THEN [threw |-> TRUE, logged |-> FALSE]
              ELSE [threw |-> FALSE, logged |-> FALSE]

Header(value) == [present |-> TRUE, value |-> value]

\* headers sent with a body: none, the empty string, every method with every
\* digest, the right digest bare, cut short, with no method, and followed by
\* a second "=" and more text, and a method alone
Headers(secret, buf) ==
  {[present |-> FALSE], Header(<< >>)}
    \cup {Header(<< m, "=" >> \o d) : m \in Methods, d \in Digests}
    \cup {Header(createHmac(secret, buf)),
          Header(<< "sha1", "=" >> \o SubSeq(createHmac(secret, buf), 1, DigestLen - 1)),
          Header(<< "=" >> \o createHmac(secret, buf)),
          Header(<< "sha1" >>),
          Header(<< "sha1", "=" >> \o createHmac(secret, buf) \o << "=" >>
                   \o createHmac(secret, buf)),
          Header(<< "sha1", "=" >> \o createHmac(secret, buf) \o << "=", "0" >>)}

-----------------------------------------------------------------------------
(* POST /webhook step by step                                              *)

\* faulty variant: the Send API is waited for, its callback runs inside the
\* handler
callbackMayRun_blocking(handlerRunning) == TRUE

\* request(options, callback) returns at once; the callback runs from the event
\* loop, which takes its next task when the handler has returned
callbackMayRun(handlerRunning) == ~handlerRunning

InitHttp ==
  /\ variant \in Variants
  /\ mode = Templates
  /\ req = NoRequest
  /\ outbox = << >>
  /\ res = 0
  /\ threw = ""
  /\ walk = << >>
  /\ appSecret \in Secrets
  /\ NoPost
  /\ NoGet
  /\ Listening

\* a request comes in: the verify hook runs on the raw body; when it throws
\* the body is not parsed and the handler is not called, otherwise the handler
\* starts with req.body
PostSigned ==
  /\ process = "listening"
  /\ ~running
  /\ \E buf \in Range(RawBodies) : \E sig \in Headers(appSecret, buf) :
       LET v == verifyRequestSignature(sig, buf, appSecret)
       IN /\ signature' = sig
          /\ rawBody' = buf
          /\ verdict' = IF v.threw THEN "threw"
                        ELSE IF v.logged THEN "logged" ELSE "passed"
          /\ req' = IF v.threw THEN NoRequest ELSE JSONparse(buf)
          /\ running' = ~v.threw
  /\ outbox' = << >>
  /\ res' = 0
  /\ threw' = ""
  /\ dispatched' = 0
  /\ completed' = 0
  /\ tags' = << >>
  /\ sendlog' = << >>
  /\ UNCHANGED <<variant, mode, walk, appSecret, query, getres>>
  /\ UNCHANGED startvars

\* the loops hand the next event to its handler; an exception ends the request
\* handler
DispatchEvent ==
  /\ running
  /\ req.object = "page"
  /\ dispatched < Len(messagingEvents(req.entry))
  /\ LET r == dispatch(variant, mode, messagingEvents(req.entry)[dispatched + 1], 0)
     IN /\ outbox' = outbox \o r.calls
        /\ threw' = r.threw
        /\ running' = (r.threw = "")
  /\ dispatched' = dispatched + 1
  /\ tags' = Append(tags, classify(variant, messagingEvents(req.entry)[dispatched + 1]))
  /\ UNCHANGED <<variant, mode, req, res, walk, appSecret, signature, rawBody,
                 verdict, completed, query, getres, sendlog>>
  /\ UNCHANGED startvars

\* the outer loop comes to an entry without a messaging list: the exception
\* ends the request handler
EntryThrows ==
  /\ running
  /\ req.object = "page"
  /\ dispatched = Len(messagingEvents(req.entry))
  /\ noMessaging(req.entry)
  /\ threw' = "TypeError"
  /\ running' = FALSE
  /\ UNCHANGED <<variant, mode, req, outbox, res, walk, appSecret, signature,
                 rawBody, verdict, dispatched, completed, query, getres, tags,
                 sendlog>>
  /\ UNCHANGED startvars

\* res.sendStatus(200) after the loops
Acknowledge ==
  /\ running
  /\ req.object = "page"
  /\ dispatched = Len(messagingEvents(req.entry))
  /\ ~noMessaging(req.entry)
  /\ res' = 200
  /\ running' = FALSE
  /\ UNCHANGED <<variant, mode, req, outbox, threw, walk, appSecret, signature,
                 rawBody, verdict, dispatched, completed, query, getres, tags,
                 sendlog>>
  /\ UNCHANGED startvars

\* data.object is not 'page': the handler returns, nothing is sent to res
SkipEnvelope ==
  /\ running
  /\ req.object # "page"
  /\ running' = FALSE
  /\ UNCHANGED <<variant, mode, req, outbox, res, threw, walk, appSecret,
                 signature, rawBody, verdict, dispatched, completed, query, getres,
                 tags, sendlog>>
  /\ UNCHANGED startvars

\* what request() hands to the callback: (error, response, body). A transport
\* error comes with no response object and no body.
Outcomes ==
  {[error |-> FALSE, response |-> [statusCode |-> 200],
    body |-> [recipient_id |-> "U1", message_id |-> "mid.1"]],
   [error |-> FALSE, response |-> [statusCode |-> 200],
    body |-> [recipient_id |-> "U1"]],
   [error |-> FALSE, response |-> [statusCode |-> 400],
    body |-> [error |-> "OAuthException"]],
   [error |-> TRUE]}

\* !error && response.statusCode == 200
succeeded(outcome) == ~outcome.error /\ outcome.response.statusCode = 200

\* the callback of part_000 and app.js: one of two fixed lines
P0_callback(outcome) ==
  [threw |-> "", logged |-> IF succeeded(outcome) THEN "success" ELSE "failed"]

\* the callback of part_001 and part_002: the failure branch reads
\* response.statusCode, response.statusMessage and body.error
P2_callback(outcome) ==
  IF succeeded(outcome)
    THEN [threw |-> "",
          logged |-> IF Has(outcome.body, "message_id") THEN "sent" ELSE "called"]
  ELSE IF ~Has(outcome, "response") \/ ~Has(outcome, "body")
    THEN [threw |-> "TypeError", logged |-> ""]
  ELSE [threw |-> "", logged |-> "failed"]

callback(v, outcome) ==
  IF v \in {"part_001", "part_002"} THEN P2_callback(outcome)
  ELSE P0_callback(outcome)

\* the calls whose callback has not run: the network answers them in any
\* order
outstanding(calls, log) ==
  (DOMAIN calls) \ {log[k].call : k \in DOMAIN log}

\* the callback of one of the outstanding Send API calls runs; an exception it
\* raises is caught by nobody and ends the process
SendCompletes ==
  /\ process = "listening"
  /\ callbackMayRun(running)
  /\ completed < Len(outbox)
  /\ completed' = completed + 1
  /\ \E call \in outstanding(outbox, sendlog) : \E outcome \in Outcomes :
       LET r == callback(variant, outcome)
       IN /\ sendlog' = IF r.threw = ""
                          THEN Append(sendlog, [call |-> call, logged |-> r.logged])
                          ELSE sendlog
          /\ process' = IF r.threw = "" THEN process ELSE "crashed"
  /\ UNCHANGED <<variant, mode, req, outbox, res, threw, walk, appSecret,
                 signature, rawBody, verdict, running, dispatched, query, getres,
                 tags, config>>

NextHttp ==
  \/ PostSigned
  \/ DispatchEvent
  \/ EntryThrows
  \/ Acknowledge
  \/ SkipEnvelope
  \/ SendCompletes

SpecHttp == InitHttp /\ [][NextHttp]_vars

-----------------------------------------------------------------------------
(* GET /webhook                                                            *)

\* faulty variant: hub.mode is not looked at
getWebhook_anyMode(q) ==
  IF Has(q, "hub.verify_token") /\ q["hub.verify_token"] = VALIDATION_TOKEN
    THEN [status |-> 200,
          body |-> IF Has(q, "hub.challenge") THEN q["hub.challenge"] ELSE ""]
    ELSE [status |-> 403, body |-> "Forbidden"]

\* app.get('/webhook'): q is req.query; res.status(200).send(challenge) when
\* mode and token are the expected strings, res.sendStatus(403) otherwise
getWebhook(q) ==
  IF /\ Has(q, "hub.mode") /\ q["hub.mode"] = "subscribe"
     /\ Has(q, "hub.verify_token") /\ q["hub.verify_token"] = VALIDATION_TOKEN
    THEN [status |-> 200,
          body |-> IF Has(q, "hub.challenge") THEN q["hub.challenge"] ELSE ""]
    ELSE [status |-> 403, body |-> "Forbidden"]

QueryKeys == {"hub.mode", "hub.verify_token", "hub.challenge"}
QueryValues == {"subscribe", "Subscribe", VALIDATION_TOKEN, "1158201444"}

\* query strings: any of the three parameters present or missing, each with
\* any of the values
Queries == UNION {[K -> QueryValues] : K \in SUBSET QueryKeys}

GetWebhook ==
  \E q \in Queries :
    /\ process = "listening"
    /\ query' = q
    /\ getres' = getWebhook(q)
    /\ UNCHANGED <<variant, mode, req, outbox, res, threw, walk, appSecret,
                   signature, rawBody, verdict, running, dispatched, completed,
                   tags, sendlog>>
    /\ UNCHANGED startvars

\* a text message is posted and handled
PostText ==
  \E text \in {"hello", "help"} :
    /\ Handle(Page(<< Entry(<< TextEvent("U1", text) >>) >>), << 0 >>)
    /\ walk' = << >>

NextGet == GetWebhook \/ PostText

SpecGet == Init /\ [][NextGet]_vars

-----------------------------------------------------------------------------
(* Start of the process                                                    *)

\* config/default.json: each key is left out, set to the empty string, or set
\* to its value
Files ==
  UNION {{f \in [K -> {""} \cup {ConfigValue[k] : k \in K}] :
            \A k \in K : f[k] \in {"", ConfigValue[k]}} : K \in SUBSET ConfigKeys}

\* the environment sets no key, or one key to the empty string or to its value
Environments ==
  {<< >>} \cup UNION {{k :> "", k :> ConfigValue[k]} : k \in ConfigKeys}

Configs == {[env |-> e, file |-> f] : e \in Environments, f \in Files}

InitStart ==
  /\ variant \in Variants
  /\ mode = Templates
  /\ req = NoRequest
  /\ outbox = << >>
  /\ res = 0
  /\ threw = ""
  /\ walk = << >>
  /\ appSecret = APP_SECRET
  /\ NoPost
  /\ NoGet
  /\ config \in Configs
  /\ process = "starting"

\* node runs the file
Start ==
  /\ process = "starting"
  /\ process' = start(variant, config)
  /\ UNCHANGED <<variant, mode, req, outbox, res, threw, walk, config>>
  /\ UNCHANGED httpvars

NextStart == Start \/ GetWebhook \/ PostText

SpecStart == InitStart /\ [][NextStart]_vars

-----------------------------------------------------------------------------
(* Vocabulary of the properties                                            *)

TopicOrder == << "Rotation", "Photo", "Caption", "Background" >>

\* the token that enters a topic: the first step of its tour, which is also the
\* token the carousel responder switches on
EntryToken(t) == steps(variant)[t][1]
EntryTokens == {EntryToken(t) : t \in Topics}
TopicOfEntry(p) == CHOOSE t \in Topics : EntryToken(t) = p

\* the last request held exactly one event
SingleEvent == req.object = "page" /\ Len(messagingEvents(req.entry)) = 1
TheEvent == messagingEvents(req.entry)[1]

OneVariant(e, field) ==
  /\ Has(e, field)
  /\ \A f \in {"message", "postback", "delivery", "read", "account_linking",
               "optin"} \ {field} : ~Has(e, f)

IsEcho(e) == Has(e.message, "is_echo") /\ e.message.is_echo

IsPostbackOf(e) == ReadsIds(e) /\ OneVariant(e, "postback")
IsQuickReplyOf(e) ==
  ReadsIds(e) /\ OneVariant(e, "message") /\ Has(e.message, "quick_reply")
    /\ ~IsEcho(e)
IsPlainTextOf(e) ==
  ReadsIds(e) /\ OneVariant(e, "message") /\ ~Has(e.message, "quick_reply")
    /\ ~IsEcho(e) /\ HasText(e.message)

MenuPayload ==
  IF Has(TheEvent, "postback") THEN TheEvent.postback.payload
  ELSE TheEvent.message.quick_reply.payload

\* the last request was one menu selection answered by the carousel responder
BranchingRequest ==
  /\ SingleEvent
  /\ variant # "app"
  /\ \/ IsPostbackOf(TheEvent)
     \/ IsQuickReplyOf(TheEvent) /\ mode = Templates

\* the last request was one quick reply answered by the linear responder
LinearRequest ==
  /\ SingleEvent
  /\ variant \in {"part_001", "part_002"}
  /\ mode = LinearPhotos
  /\ IsQuickReplyOf(TheEvent)

IsCarousel(m) ==
  /\ Has(m, "message") /\ Has(m.message, "attachment")
  /\ m.message.attachment.type = "template"
  /\ m.message.attachment.payload.template_type = "generic"

Cards(m) == m.message.attachment.payload.elements

ButtonTargets(card) == {b.payload : b \in Range(card.buttons)}

OtherEntryTokens(t) == {EntryToken(u) : u \in Topics \ {t}}

\* m is the top-level prompt addressed to user: the prompt text and four text
\* choices, one per topic in TopicOrder, each with its topic's entry token
IsTopLevelPrompt(m, user) ==
  /\ m.recipient.id = user
  /\ Has(m, "message") /\ ~Has(m.message, "attachment")
  /\ Has(m.message, "text") /\ m.message.text = "Select a feature to learn more."
  /\ Has(m.message, "quick_replies")
  /\ Len(m.message.quick_replies) = 4
  /\ \A i \in 1..4 :
       /\ m.message.quick_replies[i].content_type = "text"
       /\ m.message.quick_replies[i].payload = EntryToken(TopicOrder[i])

PromptTitles(m) == [i \in 1..4 |-> m.message.quick_replies[i].title]

\* the image the linear tour of the running file shows at a step token
StepImage(token) ==
  IF variant = "part_001" THEN P1_linearCase(token).url
  ELSE P2_linearCase(token).url

-----------------------------------------------------------------------------
(* Carousel (branching) replies                                            *)

\* C1 (as stated): for each of the four topic tokens the carousel sent has at
\* least 2 cards and the buttons of every card name exactly the other three
\* topics, never the topic shown.
C1_ButtonsNameOtherThree ==
  (BranchingRequest /\ MenuPayload \in EntryTokens) =>
    /\ Len(outbox) = 1 /\ IsCarousel(outbox[1])
    /\ Len(Cards(outbox[1])) >= 2
    /\ \A i \in DOMAIN Cards(outbox[1]) :
         ButtonTargets(Cards(outbox[1])[i]) = OtherEntryTokens(TopicOfEntry(MenuPayload))

\* C1 (amended): for each of the four topic tokens the carousel sent has at
\* least 2 cards and every card's buttons name other topics only, never the
\* topic shown: exactly the other three in part_000 and part_002, two of the
\* other three in part_001.
C1_ButtonsNameOtherTopics ==
  (BranchingRequest /\ MenuPayload \in EntryTokens) =>
    /\ Len(outbox) = 1 /\ IsCarousel(outbox[1])
    /\ Len(Cards(outbox[1])) >= 2
    /\ \A i \in DOMAIN Cards(outbox[1]) :
         LET targets == ButtonTargets(Cards(outbox[1])[i])
         IN /\ targets \subseteq OtherEntryTokens(TopicOfEntry(MenuPayload))
            /\ Len(Cards(outbox[1])[i].buttons) = Cardinality(targets)
            /\ Cardinality(targets) = IF variant = "part_001" THEN 2 ELSE 3

C1_Witness ==
  /\ BranchingRequest /\ MenuPayload \in EntryTokens
  /\ variant = "part_001" /\ TopicOfEntry(MenuPayload) = "Background"
  /\ Len(outbox) = 1

\* C2: the carousel for a topic is one message holding all steps of the topic
\* as cards, 2 for Rotation, 3 for Photo, 4 for Caption, 5 for Background, in
\* the order of the steps of the tour (card k shows the image of step k), and
\* all cards of the message carry the same button row.
C2_AllStepsInOneCarousel ==
  (BranchingRequest /\ MenuPayload \in EntryTokens) =>
    LET t == TopicOfEntry(MenuPayload)
        count == [Rotation |-> 2, Photo |-> 3, Caption |-> 4, Background |-> 5]
    IN /\ Len(outbox) = 1 /\ IsCarousel(outbox[1])
       /\ outbox[1].recipient.id = TheEvent.sender.id
       /\ Len(Cards(outbox[1])) = count[t]
       /\ \A k \in DOMAIN Cards(outbox[1]) :
            /\ Cards(outbox[1])[k].image_url = StepImage(steps(variant)[t][k + 1])
            /\ Cards(outbox[1])[k].buttons = Cards(outbox[1])[1].buttons

C2_Witness ==
  /\ BranchingRequest /\ MenuPayload \in EntryTokens
  /\ TopicOfEntry(MenuPayload) = "Background"
  /\ Len(outbox) = 1 /\ Len(Cards(outbox[1])) = 5

\* C3 (as stated): a quick-reply or postback payload that is none of the four
\* topic tokens makes the carousel responder send the top-level prompt to the
\* sender, and no carousel.
C3_UnknownTokenSendsPrompt ==
  (BranchingRequest /\ MenuPayload \notin EntryTokens) =>
    /\ Len(outbox) = 1
    /\ IsTopLevelPrompt(outbox[1], TheEvent.sender.id)

\* C3 (amended): a quick-reply or postback payload that is none of the four
\* topic tokens never makes the carousel responder send the top-level prompt:
\* part_001 sends nothing, part_000 and part_002 send one generic template
\* whose element list is empty.
C3_UnknownTokenSendsNoPrompt ==
  (BranchingRequest /\ MenuPayload \notin EntryTokens) =>
    /\ threw = ""
    /\ \A i \in DOMAIN outbox :
         /\ ~Has(outbox[i].message, "quick_replies")
         /\ IsCarousel(outbox[i]) /\ Cards(outbox[i]) = << >>
    /\ Len(outbox) = IF variant = "part_001" THEN 0 ELSE 1

C3_Witness ==
  /\ BranchingRequest /\ MenuPayload \notin EntryTokens
  /\ variant = "part_001" /\ IsQuickReplyOf(TheEvent)
  /\ outbox = << >>

\* C4: no generic-template message with fewer than 2 elements is handed to the
\* Send API: a menu selection whose element list has fewer than 2 cards sends
\* nothing, and the request is still acknowledged with 200.
C4_NoDegenerateCarousel ==
  /\ \A i \in DOMAIN outbox :
       IsCarousel(outbox[i]) => Len(Cards(outbox[i])) >= 2
  /\ (BranchingRequest /\ MenuPayload \notin EntryTokens) =>
       (outbox = << >> /\ res = 200)

-----------------------------------------------------------------------------
(* The help command                                                        *)

\* C5 (as stated, for part_000, part_001 and part_002): a Message event whose
\* text is "help" (no quick reply, not an echo) makes the bot send the top-level
\* prompt with exactly 4 choices titled Rotation, Photo, Caption, Background in
\* that order, each carrying the entry token of its topic.
C5_HelpSendsPrompt ==
  (SingleEvent /\ IsPlainTextOf(TheEvent) /\ TheEvent.message.text = "help"
     /\ variant \in {"part_000", "part_001", "part_002"}) =>
    /\ Len(outbox) = 1
    /\ IsTopLevelPrompt(outbox[1], TheEvent.sender.id)
    /\ PromptTitles(outbox[1]) = TopicOrder

\* C5 (amended): in part_000 and part_001 a Message event whose text is "help"
\* (no quick reply, not an echo) makes the bot send the top-level prompt with
\* exactly 4 choices, one per topic in the order Rotation, Photo, Caption,
\* Background, each carrying the entry token of its topic; the titles are
\* Rotation, Photo, Caption, Background in part_000 and Rotation, Photo, Poster
\* Text, Background Color in part_001. part_002 and app.js have no help command
\* and send the text back.
C5_HelpSendsPromptWhereImplemented ==
  (SingleEvent /\ IsPlainTextOf(TheEvent) /\ TheEvent.message.text = "help") =>
    /\ Len(outbox) = 1 /\ threw = ""
    /\ outbox[1].recipient.id = TheEvent.sender.id
    /\ variant \in {"part_000", "part_001"} =>
         /\ IsTopLevelPrompt(outbox[1], TheEvent.sender.id)
         /\ PromptTitles(outbox[1]) =
              IF variant = "part_000" THEN TopicOrder
              ELSE << "Rotation", "Photo", "Poster Text", "Background Color" >>
    /\ variant \in {"part_002", "app"} =>
         /\ outbox[1].message.text = "help"
         /\ ~Has(outbox[1].message, "quick_replies")

C5_Witness ==
  /\ SingleEvent /\ IsPlainTextOf(TheEvent) /\ TheEvent.message.text = "help"
  /\ variant = "part_000"
  /\ Len(outbox) = 1 /\ Has(outbox[1].message, "quick_replies")

-----------------------------------------------------------------------------
(* Linear replies                                                          *)

\* position of a token in the tour of topic t (0 when it is no step of t)
StepIndex(t, token) ==
  IF token \in Range(steps(variant)[t])
    THEN CHOOSE k \in DOMAIN steps(variant)[t] : steps(variant)[t][k] = token
    ELSE 0

\* the last request asked the linear responder for step k of topic t
LinearStep(t, k) == LinearRequest /\ StepIndex(t, MenuPayload) = k

LastStep(t) == Len(steps(variant)[t])

\* image of card k of the carousel of topic t in the running file
CardImage(t, k) ==
  IF variant = "part_001"
    THEN P1_templateElements(EntryToken(t))[k].image_url
    ELSE P2_templateElements(EntryToken(t))[k].image_url

ContinueOffered ==
  \E i \in DOMAIN OfferedQuickReplies : OfferedQuickReplies[i].title = "Continue"

\* C6: for step 0 of each topic the linear reply is the topic's introductory
\* text with no attachment, plus exactly two quick replies in order: Restart
\* (restart token) and Continue whose payload is the token of step 1 of the
\* same topic.
C6_IntroStep ==
  \A t \in Topics :
    LinearStep(t, 1) =>
      /\ Len(outbox) = 1 /\ threw = ""
      /\ outbox[1].recipient.id = TheEvent.sender.id
      /\ Has(outbox[1].message, "text") /\ outbox[1].message.text # ""
      /\ ~Has(outbox[1].message, "attachment")
      /\ outbox[1].message.quick_replies =
           << QuickReply("Restart", "QR_RESTART"),
              QuickReply("Continue", steps(variant)[t][2]) >>

C6_Witness ==
  /\ LinearStep("Caption", 1) /\ variant = "part_002"
  /\ Len(outbox) = 1 /\ Has(outbox[1].message, "text")

\* C7: for every intermediate step (neither step 0 nor the last) of every topic
\* the linear reply carries the image of that step, no text field, and exactly
\* two quick replies: Restart and Continue whose payload is the token of the
\* next step of the same topic.
C7_IntermediateStep ==
  \A t \in Topics : \A k \in 2..(LastStep(t) - 1) :
    LinearStep(t, k) =>
      /\ Len(outbox) = 1 /\ threw = ""
      /\ outbox[1].recipient.id = TheEvent.sender.id
      /\ ~Has(outbox[1].message, "text")
      /\ Has(outbox[1].message, "attachment")
      /\ outbox[1].message.attachment.type = "image"
      /\ outbox[1].message.attachment.payload.url = CardImage(t, k - 1)
      /\ outbox[1].message.quick_replies =
           << QuickReply("Restart", "QR_RESTART"),
              QuickReply("Continue", steps(variant)[t][k + 1]) >>

C7_Witness ==
  /\ LinearStep("Photo", 2) /\ variant = "part_002"
  /\ Len(outbox) = 1 /\ Has(outbox[1].message, "attachment")

\* C8: for the terminal step of each topic the linear reply carries the last
\* image and a quick-reply set with exactly one choice, titled "Explore another
\* feature", whose payload is the restart token; no Continue choice is present.
C8_TerminalStep ==
  \A t \in Topics :
    LinearStep(t, LastStep(t)) =>
      /\ Len(outbox) = 1 /\ threw = ""
      /\ ~Has(outbox[1].message, "text")
      /\ Has(outbox[1].message, "attachment")
      /\ outbox[1].message.attachment.type = "image"
      /\ outbox[1].message.attachment.payload.url = CardImage(t, LastStep(t) - 1)
      /\ outbox[1].message.quick_replies =
           << QuickReply("Explore another feature", "QR_RESTART") >>
      /\ ~ContinueOffered

C8_Witness ==
  /\ LinearStep("Background", 6) /\ variant = "part_001"
  /\ Len(outbox) = 1 /\ Len(outbox[1].message.quick_replies) = 1

\* C9: a linear walk that starts at step 0 of a topic and feeds back the
\* Continue payload of each reply visits the steps of that topic in order,
\* never a step twice and never another topic, and the reply without Continue
\* comes after exactly N-1 Continues, N = 3 for Rotation, 4 for Photo, 5 for
\* Caption, 6 for Background.
C9_WalkTerminates ==
  (mode = LinearPhotos /\ walk # << >> /\ walk[1] \in EntryTokens) =>
    LET t == TopicOfEntry(walk[1])
        N == [Rotation |-> 3, Photo |-> 4, Caption |-> 5, Background |-> 6]
    IN /\ Len(walk) <= N[t]
       /\ \A i \in DOMAIN walk : walk[i] = steps(variant)[t][i]
       /\ \A i, j \in DOMAIN walk : i # j => walk[i] # walk[j]
       /\ threw = "" /\ Len(outbox) = 1
       /\ ContinueOffered <=> Len(walk) < N[t]

C9_Witness ==
  /\ mode = LinearPhotos /\ Len(walk) = 6
  /\ walk[1] = EntryToken("Background")
  /\ ~ContinueOffered

\* C10: every linear step reply carries the Restart choice as its first quick
\* reply, and the restart token fed back to the linear responder sends the
\* top-level 4-choice prompt and nothing else.
C10_RestartReachesPrompt ==
  /\ (LinearRequest /\ \E t \in Topics : StepIndex(t, MenuPayload) > 0) =>
       /\ Len(outbox) = 1
       /\ outbox[1].message.quick_replies[1].payload = "QR_RESTART"
  /\ (LinearRequest /\ MenuPayload = "QR_RESTART") =>
       /\ threw = ""
       /\ Len(outbox) = 1
       /\ IsTopLevelPrompt(outbox[1], TheEvent.sender.id)

\* every step token of the running file
StepTokens == UNION {Range(steps(variant)[t]) : t \in Topics}

\* C11: a payload that is neither the restart token nor a step token makes the
\* linear responder send the top-level 4-choice prompt to the sender and no
\* step reply, without raising.
C11_UnknownTokenReachesPrompt ==
  (LinearRequest /\ MenuPayload \notin StepTokens \cup {"QR_RESTART"}) =>
    /\ threw = ""
    /\ res = 200
    /\ Len(outbox) = 1
    /\ IsTopLevelPrompt(outbox[1], TheEvent.sender.id)

-----------------------------------------------------------------------------
(* Every reply                                                             *)

\* C12: no message handed to the Send API has both a text field and an
\* attachment field in its message body: whenever an attachment is present the
\* text field is absent, not merely empty.
C12_TextXorAttachment ==
  \A i \in DOMAIN outbox :
    (Has(outbox[i], "message") /\ Has(outbox[i].message, "attachment")) =>
      ~Has(outbox[i].message, "text")

\* a linear image reply of part_001
C12_Witness ==
  /\ variant = "part_001" /\ mode = LinearPhotos
  /\ \E i \in DOMAIN outbox :
       /\ Has(outbox[i], "message") /\ Has(outbox[i].message, "attachment")
       /\ outbox[i].message.attachment.type = "image"
       /\ Has(outbox[i].message, "quick_replies")

\* the same menu selection arriving by the other event path: a postback for a
\* quick reply, a quick reply for a postback
OtherPath(e) ==
  IF Has(e, "postback")
    THEN QuickReplyEvent(e.sender.id, "tap", e.postback.payload)
    ELSE PostbackEvent(e.sender.id, e.message.quick_reply.payload)

\* what the running file sends for one event posted alone
ReplyTo(e) == webhook(variant, mode, Page(<< Entry(<< e >>) >>), << 0 >>).calls

\* C13: one navigation mode answers every menu payload of a run: a Postback
\* with payload P and a Message whose quick reply has payload P, from the same
\* sender, produce the same outbound reply, and the mode never changes between
\* requests.
C13_OneModeAnswersBothPaths ==
  /\ []((SingleEvent /\ (IsPostbackOf(TheEvent) \/ IsQuickReplyOf(TheEvent))) =>
          outbox = ReplyTo(OtherPath(TheEvent)))
  /\ [][mode' = mode]_vars

-----------------------------------------------------------------------------
(* Request signature                                                       *)

\* the handler was not called for the last request: nothing of its body was
\* dispatched, nothing was sent, no status was given by the handler
HandlerNeverRan ==
  /\ verdict = "threw"
  /\ ~running
  /\ req = NoRequest
  /\ dispatched = 0
  /\ outbox = << >>
  /\ res = 0

\* C14: a POST /webhook request that carries no x-hub-signature header is
\* rejected before any event of its body is classified: no handler runs and no
\* reply is sent for it.
C14_MissingSignatureRejected ==
  (rawBody # "" /\ ~signature.present) => HandlerNeverRan

\* the header has the form <method>=<hexDigest>: one method symbol, one "=",
\* then the digest
WellFormed(sig) ==
  /\ sig.present
  /\ Len(sig.value) >= 2
  /\ sig.value[1] # "="
  /\ sig.value[2] = "="
  /\ \A i \in 3..Len(sig.value) : sig.value[i] # "="

DigestOf(sig) == SubSeq(sig.value, 3, Len(sig.value))

\* C15: a POST /webhook request whose x-hub-signature digest differs from the
\* HMAC of the raw body under the app secret raises in the verifier, so the
\* handler never runs for it: no event is classified, no Send API call is made
\* and the handler produces no 200.
C15_BadDigestNeverHandled ==
  (/\ rawBody # ""
   /\ WellFormed(signature)
   /\ DigestOf(signature) # createHmac(appSecret, rawBody)) => HandlerNeverRan

C15_Witness ==
  /\ rawBody = "two"
  /\ WellFormed(signature)
  /\ Len(DigestOf(signature)) = DigestLen
  /\ DigestOf(signature) # createHmac(appSecret, rawBody)
  /\ HandlerNeverRan

\* C16: verification is exact: for every secret and body a header of the form
\* <method>=<hexDigest> passes when hexDigest equals the computed digest and
\* fails for every hexDigest that differs from it in any position; verifying
\* changes nothing of the server's state.
C16_VerificationExact ==
  /\ []((rawBody # "" /\ WellFormed(signature)) =>
          /\ verdict \in {"passed", "threw"}
          /\ verdict = "passed" <=>
               DigestOf(signature) = createHmac(appSecret, rawBody))
  /\ [][UNCHANGED <<variant, mode, appSecret>>]_vars

C16_Witness ==
  /\ appSecret = "otherSecret"
  /\ rawBody = "entries"
  /\ WellFormed(signature)
  /\ signature.value[1] = "md5"
  /\ verdict = "passed"
  /\ res = 200

-----------------------------------------------------------------------------
(* Webhook verification                                                    *)

\* C17: GET /webhook answers 200 with the hub.challenge value as body exactly
\* when hub.mode is "subscribe" and hub.verify_token equals the configured
\* validation token; in every other case it answers 403; it never issues a
\* Send API call.
C17_GetWebhookAnswers ==
  /\ [](getres.status # 0 =>
          IF /\ "hub.mode" \in DOMAIN query
             /\ "hub.verify_token" \in DOMAIN query
             /\ query["hub.mode"] = "subscribe"
             /\ query["hub.verify_token"] = VALIDATION_TOKEN
            THEN /\ getres.status = 200
                 /\ "hub.challenge" \in DOMAIN query =>
                      getres.body = query["hub.challenge"]
            ELSE getres.status = 403)
  /\ [][(query' # query \/ getres' # getres) => outbox' = outbox]_vars

C17_Witness ==
  /\ outbox # << >>
  /\ getres = [status |-> 200, body |-> "1158201444"]
  /\ query["hub.mode"] = "subscribe"

-----------------------------------------------------------------------------
(* Envelopes and acknowledgment                                            *)

\* C18: a POST /webhook whose envelope object kind is not "page" processes no
\* entries, sends zero replies, and is still acknowledged with 200.
C18_OtherEnvelopeAcknowledged ==
  (req # NoRequest /\ req.object # "page") =>
    /\ outbox = << >>
    /\ threw = ""
    /\ res = 200

\* C19: for a page envelope the 200 is sent only after every event of every
\* entry of the batch has been dispatched to its handler, and it is sent
\* without waiting for any Send API call to complete: no send callback of the
\* batch runs before the acknowledgment.
C19_AckAfterDispatchBeforeCallbacks ==
  /\ [](req.object = "page" =>
          /\ res = 200 =>
               /\ dispatched = Len(messagingEvents(req.entry))
               /\ ~running
          /\ completed > 0 =>
               /\ ~running
               /\ threw = "" => res = 200)
  /\ [][(res # 200 /\ res' = 200) => (completed' = 0 /\ outbox' = outbox)]_vars

\* acknowledged with two calls made and neither callback run yet
C19_Witness ==
  /\ rawBody = "two"
  /\ res = 200
  /\ dispatched = 2
  /\ Len(outbox) = 2
  /\ completed = 0

-----------------------------------------------------------------------------
(* Classification                                                          *)

\* the fields of the last event that a dispatch chain may test
Populated(e) == {f \in VariantFields : Has(e, f)}

\* the first field of an order that the event has ("unknown" when it has none)
FirstOf(order, e) ==
  IF \E i \in DOMAIN order : Has(e, order[i])
    THEN order[CHOOSE i \in DOMAIN order :
                 /\ Has(e, order[i])
                 /\ \A j \in 1..(i - 1) : ~Has(e, order[j])]
    ELSE "unknown"

\* the event cut down to its sender, its recipient and one field
Only(e, f) ==
  IF f = "unknown" THEN [x \in DOMAIN e \ VariantFields |-> e[x]]
  ELSE [x \in (DOMAIN e \ VariantFields) \cup {f} |-> e[x]]

\* the last request was answered as its event cut down to field f is answered
AnsweredAs(f) ==
  LET r == webhook(variant, mode, Page(<< Entry(<< Only(TheEvent, f) >>) >>), << 0 >>)
  IN outbox = r.calls /\ threw = r.threw /\ res = r.status

SpecOrder ==
  << "message", "postback", "delivery", "read", "account_linking", "optin" >>

\* the order of the if / else-if chain of each file
FileOrder ==
  [app |-> << "message", "postback" >>,
   part_000 |-> << "message", "postback" >>,
   part_001 |-> << "optin", "message", "delivery", "postback", "read",
                   "account_linking" >>,
   part_002 |-> << "message", "delivery", "postback" >>]

\* C20 (as stated): when an event has more than one variant field populated,
\* all of them fields the running file has a branch for, the classifier picks
\* the handler by the fixed priority order message > postback > delivery >
\* read > account_link > optin.
C20_SpecPriorityOrder ==
  (/\ SingleEvent
   /\ Cardinality(Populated(TheEvent)) > 1
   /\ Populated(TheEvent) \subseteq Range(FileOrder[variant])) =>
    /\ classify(variant, TheEvent) = FirstOf(SpecOrder, TheEvent)
    /\ AnsweredAs(FirstOf(SpecOrder, TheEvent))

\* C20 (amended): when an event has more than one variant field populated the
\* classifier takes the branch of the first populated field in the order of the
\* running file's if / else-if chain: optin > message > delivery > postback >
\* read > account_linking in part_001, message > delivery > postback in
\* part_002, message > postback in part_000 and app.js; a field the file has no
\* branch for is never picked, and an event with no field of the chain is
\* logged and skipped.
C20_FilePriorityOrder ==
  (SingleEvent /\ Cardinality(Populated(TheEvent)) > 1) =>
    /\ classify(variant, TheEvent) = FirstOf(FileOrder[variant], TheEvent)
    /\ AnsweredAs(FirstOf(FileOrder[variant], TheEvent))

\* a delivery receipt that also carries a postback is taken as a delivery
C20_Witness ==
  /\ SingleEvent
  /\ variant = "part_002"
  /\ Populated(TheEvent) = {"delivery", "postback"}
  /\ outbox = << >>
  /\ res = 200

-----------------------------------------------------------------------------
(* Batches                                                                 *)

\* the events of every entry that has a messaging list, in order
RECURSIVE allEvents(_)
allEvents(entry) ==
  IF entry = << >> THEN << >>
  ELSE (IF Has(Head(entry), "messaging") THEN Head(entry).messaging ELSE << >>)
         \o allEvents(Tail(entry))

\* the request handler has been called with a page envelope and has ended
HandlerEnded == req.object = "page" /\ ~running

\* C21: once the handler of a page envelope has ended, every event of every
\* entry has been given one tag, the one of the first test of the chain it
\* passes, and has been handed to that branch once.
C21_EveryEventClassifiedOnce ==
  HandlerEnded =>
    /\ Len(tags) = Len(allEvents(req.entry))
    /\ \A i \in DOMAIN tags :
         tags[i] = FirstOf(FileOrder[variant], allEvents(req.entry)[i])

\* the last request held one well-formed event with only field f of the fields
\* the chains test
LogOnlyEvent(f) == SingleEvent /\ ReadsIds(TheEvent) /\ OneVariant(TheEvent, f)

\* C22: a delivery, read, account_linking or optin event causes no Send API
\* call, its handling raises nothing, and the batch is acknowledged with 200.
C22_LogOnlyEventsAcknowledged ==
  (\E f \in {"delivery", "read", "account_linking", "optin"} : LogOnlyEvent(f)) =>
    /\ outbox = << >>
    /\ threw = ""
    /\ res = 200

\* the event has none of the fields the chain of the running file tests
Unknown(e) == \A i \in DOMAIN FileOrder[variant] : ~Has(e, FileOrder[variant][i])

\* the event handed to its branch by the step now taken
Dispatching == messagingEvents(req.entry)[dispatched + 1]

\* C23: an event with none of the fields the chain tests produces no reply and
\* raises nothing, the handler goes on with the events after it, and a batch
\* of such events is acknowledged with 200.
C23_UnknownEventSkipped ==
  /\ [][(dispatched' = dispatched + 1 /\ Unknown(Dispatching)) =>
          (outbox' = outbox /\ threw' = "" /\ running')]_vars
  /\ [](HandlerEnded =>
          /\ \A i \in DOMAIN allEvents(req.entry) :
               (\A j \in 1..(i - 1) : Unknown(allEvents(req.entry)[j])) =>
                 i <= dispatched
          /\ (~noMessaging(req.entry)
                /\ \A i \in DOMAIN allEvents(req.entry) :
                     Unknown(allEvents(req.entry)[i])) =>
               (outbox = << >> /\ threw = "" /\ res = 200))

\* an unknown event came first in a batch, the quick reply after it was
\* answered and the batch was acknowledged
C23_Witness ==
  /\ HandlerEnded
  /\ Len(allEvents(req.entry)) = 3
  /\ Unknown(allEvents(req.entry)[1])
  /\ dispatched = 3
  /\ outbox # << >>
  /\ res = 200

\* C24: handling a page envelope never raises, whatever its events and entries
\* look like (no sender, no recipient, a message without text, an entry
\* without a messaging list), and the request is acknowledged with 200.
C24_PageHandlingTotal ==
  req.object = "page" => (threw = "" /\ res = 200)

\* the sends made for each event of a list when each event arrives alone in a
\* callback of its own, one after the other
RECURSIVE Alone(_, _)
Alone(events, randoms) ==
  IF events = << >> THEN << >>
  ELSE webhook(variant, mode, Page(<< Entry(<< Head(events) >>) >>),
               << Head(randoms) >>).calls
         \o Alone(Tail(events), Tail(randoms))

\* C25: the sends made for a batch are the sends each of its events causes
\* when it arrives alone, in order, so an event that fails takes nothing away
\* from the events after it.
C25_EventsIndependent ==
  req.object = "page" =>
    \E randoms \in Randoms(variant, allEvents(req.entry)) :
      outbox = Alone(allEvents(req.entry), randoms)

-----------------------------------------------------------------------------
(* Send API callbacks                                                      *)

\* C26: whatever the outcome of a Send API call (status 200, another status,
\* a transport error with no response object), the callback only logs: it
\* raises nothing, causes no further send, and leaves the response given to
\* the webhook caller as it was.
C26_CallbackOnlyLogs ==
  /\ [](process # "crashed")
  /\ [][completed' = completed + 1 =>
          (Len(sendlog') = Len(sendlog) + 1 /\ outbox' = outbox /\ res' = res)]_vars

-----------------------------------------------------------------------------
(* Statelessness                                                           *)

\* what a server started afresh does with the last request when Math.random
\* gives `random`
Afresh(random) == webhook(variant, mode, req, << random >>)

C28_ClassificationPure ==
  /\ \A i \in DOMAIN tags :
       tags[i] = FirstOf(FileOrder[variant], messagingEvents(req.entry)[i])
  /\ Len(tags) = dispatched
  /\ (req # NoRequest => req = JSONparse(rawBody))

\* three events of three kinds were classified, and a send made for them has
\* completed
C28_Witness ==
  /\ HandlerEnded
  /\ tags = << "unknown", "message", "delivery" >>
  /\ completed > 0

-----------------------------------------------------------------------------
(* Configuration                                                           *)

\* the key has a non-empty value in a source the running file reads
Provided(key) ==
  \/ Has(config.file, key) /\ config.file[key] # ""
  \/ readsEnv(variant) /\ Has(config.env, key) /\ config.env[key] # ""

\* no request has been handled
NothingHandled ==
  /\ req = NoRequest
  /\ outbox = << >>
  /\ res = 0
  /\ query = << >>
  /\ getres.status = 0

\* C29: when one of the four configuration values is absent or empty the
\* process never listens (it has exited, or has not come up), and no webhook
\* request is handled.
C29_RefusesToStart ==
  (\E key \in ConfigKeys : ~Provided(key)) =>
    (process \in {"starting", "exited", "crashed"} /\ NothingHandled)

\* the process has exited at the test because the server URL is empty while
\* the other three values are set
C29_Witness ==
  /\ process = "exited"
  /\ Has(config.file, "serverURL") /\ config.file.serverURL = ""
  /\ \A key \in ConfigKeys \ {"serverURL"} : Provided(key)
  /\ NothingHandled

-----------------------------------------------------------------------------
(* Addressing of replies                                                   *)

\* C30: every message handed to the Send API while an event is handled is
\* addressed to the sender of that event: never to the page, never to the
\* sender of another event of the batch.
C30_RepliesGoToSender ==
  [][dispatched' = dispatched + 1 =>
       /\ SubSeq(outbox', 1, Len(outbox)) = outbox
       /\ \A i \in (Len(outbox) + 1)..Len(outbox') :
            /\ outbox'[i].recipient.id = Dispatching.sender.id
            /\ outbox'[i].recipient.id # Dispatching.recipient.id]_vars

\* a batch with events of two users has been handled and each of them was sent
\* a reply
C30_Witness ==
  /\ HandlerEnded
  /\ dispatched = 3
  /\ \E i \in DOMAIN outbox : outbox[i].recipient.id = "U1"
  /\ \E i \in DOMAIN outbox : outbox[i].recipient.id = "U2"

-----------------------------------------------------------------------------
(* Number of sends                                                         *)

\* the events of the last request that carry a message or a postback
RECURSIVE Answerable(_)
Answerable(events) ==
  IF events = << >> THEN 0
  ELSE (IF Has(Head(events), "message") \/ Has(Head(events), "postback")
          THEN 1 ELSE 0) + Answerable(Tail(events))

\* C31: over any batch, the number of Send API calls made is at most the
\* number of events of the batch that carry a message or a postback.
C31_AtMostOneSendPerEvent ==
  req.object = "page" => Len(outbox) <= Answerable(allEvents(req.entry))

\* a batch of two events, a help message and a quick-reply tap, was answered
\* with two sends
C31_Witness ==
  /\ req.object = "page"
  /\ Len(allEvents(req.entry)) = 2
  /\ Answerable(allEvents(req.entry)) = 2
  /\ Len(outbox) = 2
  /\ threw = ""

-----------------------------------------------------------------------------
(* Message events                                                          *)

\* C32: a message event flagged as an echo (is_echo true) never causes a Send
\* API call.
C32_EchoNeverAnswered ==
  (SingleEvent /\ Has(TheEvent, "message") /\ IsEcho(TheEvent)) => outbox = << >>

\* the event with the text of its message replaced
Retexted(e, text) == [e EXCEPT !.message.text = text]

\* the last request was a quick reply, and what was sent for it is what is
\* sent for the same quick reply under any other text, none of it the text
\* sent back
MenuReplyOnly ==
  /\ \A text \in {"tap", "help", "hello"} : outbox = ReplyTo(Retexted(TheEvent, text))
  /\ \A i \in DOMAIN outbox :
       /\ outbox[i] # TextMessage(TheEvent.sender.id, TheEvent.message.text)
       /\ outbox[i] # TextMetadataMessage(TheEvent.sender.id, TheEvent.message.text)

\* C33 (as stated): a message that carries a quick reply is answered with the
\* menu reply for its payload whatever its text is; the text is never sent
\* back and never matched against the text commands.
C33_QuickReplyMenuOnly ==
  (SingleEvent /\ IsQuickReplyOf(TheEvent) /\ HasText(TheEvent.message)) =>
    MenuReplyOnly

\* C33: the same in the files that handle quick replies (part_000, part_001,
\* part_002); app.js has no quick-reply branch and sends the text back.
C33_QuickReplyMenuOnlyWhereHandled ==
  (SingleEvent /\ IsQuickReplyOf(TheEvent) /\ HasText(TheEvent.message)) =>
    IF variant = "app"
      THEN outbox = << TextMessage(TheEvent.sender.id, TheEvent.message.text) >>
      ELSE MenuReplyOnly

\* a quick reply whose text is "help" was answered with the reply for its
\* payload
C33_Witness ==
  /\ SingleEvent
  /\ variant = "part_000"
  /\ IsQuickReplyOf(TheEvent)
  /\ TheEvent.message.text = "help"
  /\ IsCarousel(outbox[1])

\* the text commands of the running file: the case labels of its switch over
\* the message text
Commands ==
  CASE variant = "part_001" ->
         {"image", "gif", "audio", "video", "file", "button", "generic", "receipt",
          "help", "read receipt", "typing on", "typing off", "account linking"}
    [] variant = "part_000" -> {"help"}
    [] OTHER -> {}

\* the text matches a command as the running file compares it: part_000
\* folds the case first, part_001 compares the text as it is
MatchesCommand(text) ==
  IF variant = "part_000" THEN toLowerCase(text) \in Commands
  ELSE text \in Commands

\* the last request was one message without a quick reply
PlainMessage ==
  /\ SingleEvent
  /\ ReadsIds(TheEvent)
  /\ OneVariant(TheEvent, "message")
  /\ ~Has(TheEvent.message, "quick_reply")

\* one text message to the sender with exactly the text received
EchoedUnchanged ==
  /\ Len(outbox) = 1
  /\ outbox[1] \in {TextMessage(TheEvent.sender.id, TheEvent.message.text),
                    TextMetadataMessage(TheEvent.sender.id, TheEvent.message.text)}

\* nothing is sent for a message without text, but for the fixed
\* acknowledgment part_001 sends for attachments
NoTextEcho ==
  \/ outbox = << >>
  \/ /\ variant = "part_001"
     /\ Has(TheEvent.message, "attachments")
     /\ outbox = << TextMetadataMessage(TheEvent.sender.id,
                                        "Message with attachment received") >>

\* C34 (as stated): a message with non-empty text that matches no command and
\* has no quick reply is answered with one text message holding exactly the
\* text received; a message with no text and no quick reply gets no text echo.
C34_UnmatchedTextEchoed ==
  PlainMessage =>
    /\ (HasText(TheEvent.message) /\ ~MatchesCommand(TheEvent.message.text)) =>
         EchoedUnchanged
    /\ ~HasText(TheEvent.message) => NoTextEcho

\* C34: the same for messages that part_001 does not take for an echo; a
\* message flagged is_echo gets nothing from part_001.
C34_UnmatchedTextEchoedUnlessEcho ==
  PlainMessage =>
    /\ (HasText(TheEvent.message) /\ ~MatchesCommand(TheEvent.message.text)) =>
         IF variant = "part_001" /\ IsEcho(TheEvent) THEN outbox = << >>
         ELSE EchoedUnchanged
    /\ ~HasText(TheEvent.message) => NoTextEcho

\* "Hello" was sent back as "Hello"
C34_Witness ==
  /\ PlainMessage
  /\ HasText(TheEvent.message)
  /\ TheEvent.message.text = "Hello"
  /\ outbox[1].message.text = "Hello"

-----------------------------------------------------------------------------
(* Offered choices                                                         *)

\* the last request was answered by the menu logic as a payload it knows: one
\* message was sent, nothing was raised, the request was acknowledged, and the
\* top-level prompt was sent only for the restart token
Recognised ==
  /\ threw = ""
  /\ res = 200
  /\ Len(outbox) = 1
  /\ (IsTopLevelPrompt(outbox[1], TheEvent.sender.id) => MenuPayload = "QR_RESTART")

\* C35: a choice the bot has offered (a quick reply of its last message, a
\* button of its last carousel), tapped by the user, is recognised by the
\* handler that receives it: no unknown-token path, no empty carousel, no
\* exception.
C35_OfferedChoicesRecognised ==
  [][(TapQuickReply \/ TapButton) => Recognised']_vars

-----------------------------------------------------------------------------
(* The graph of the carousel buttons                                       *)

\* the payloads of the buttons of the cards of a carousel
Targets(m) == UNION {ButtonTargets(Cards(m)[i]) : i \in DOMAIN Cards(m)}

\* the payloads offered by the carousel sent when the button with this
\* payload is tapped
Edges(payload) == Targets(ReplyTo(PostbackEvent("U1", payload))[1])

\* C36: the carousel sent for a topic offers buttons for other topics only,
\* each of them the entry token of a topic, and every other topic is offered
\* by it (part_000, part_002: three buttons) or by the carousel of a topic it
\* offers (part_001: two buttons); the same holds for the carousel sent after
\* any tap, so there is no dead end.
C36_ButtonGraphConnected ==
  (BranchingRequest /\ MenuPayload \in EntryTokens) =>
    /\ threw = "" /\ res = 200
    /\ Len(outbox) = 1 /\ IsCarousel(outbox[1])
    /\ Targets(outbox[1]) # {}
    /\ Targets(outbox[1]) \subseteq EntryTokens \ {MenuPayload}
    /\ \A p \in EntryTokens \ {MenuPayload} :
         IF variant = "part_001"
           THEN p \in Targets(outbox[1]) \/ \E w \in Targets(outbox[1]) : p \in Edges(w)
           ELSE p \in Targets(outbox[1])

\* in part_001 the carousel of Rotation has no button for Caption, and the
\* carousel of Photo, which it offers, has one
C36_Witness ==
  /\ BranchingRequest /\ variant = "part_001"
  /\ IsPostbackOf(TheEvent)
  /\ MenuPayload = EntryToken("Rotation")
  /\ EntryToken("Caption") \notin Targets(outbox[1])
  /\ EntryToken("Photo") \in Targets(outbox[1])
  /\ EntryToken("Caption") \in Edges(EntryToken("Photo"))

-----------------------------------------------------------------------------
(* What the verifier reads of the header                                   *)

\* the positions of "=" in the header
Equals(sig) == {i \in DOMAIN sig.value : sig.value[i] = "="}

FirstEquals(sig) == CHOOSE i \in Equals(sig) : \A j \in Equals(sig) : i <= j

\* the symbols after the first "=" up to the second one, or up to the end
\* when there is no second one
AfterFirstEquals(sig) ==
  LET later == {i \in Equals(sig) : i > FirstEquals(sig)}
      stop == IF later = {} THEN Len(sig.value) + 1
              ELSE CHOOSE i \in later : \A j \in later : i <= j
  IN SubSeq(sig.value, FirstEquals(sig) + 1, stop - 1)

\* C37: for a header that is present and not empty the verifier passes exactly
\* when the header holds a "=" and the text between the first "=" and the
\* second one (or the end) is the computed digest: whatever stands before the
\* first "=" and after the second is not looked at, and a header with no "="
\* is refused.
C37_OnlyDigestFieldRead ==
  (rawBody # "" /\ signature.present /\ signature.value # << >>) =>
    /\ verdict \in {"passed", "threw"}
    /\ verdict = "passed" <=>
         /\ Equals(signature) # {}
         /\ AfterFirstEquals(signature) = createHmac(appSecret, rawBody)

\* a header with text after a second "=" passed and the handler answered 200
C37_Witness ==
  /\ rawBody = "hello"
  /\ signature.present
  /\ Cardinality(Equals(signature)) = 2
  /\ Len(signature.value) > DigestLen + 3
  /\ verdict = "passed"
  /\ res = 200

\* a header that is the right digest with no "=" was refused
C37_WitnessBare ==
  /\ rawBody = "hello"
  /\ signature.present
  /\ signature.value = createHmac(appSecret, rawBody)
  /\ verdict = "threw"

-----------------------------------------------------------------------------
(* Order of the Send API calls of a batch                                  *)

\* the calls the handlers of these events make, event after event
RECURSIVE Initiated(_)
Initiated(events) ==
  IF events = << >> THEN << >>
  ELSE dispatch(variant, mode, Head(events), 0).calls \o Initiated(Tail(events))

\* C38: the Send API calls made for a page envelope are, in order, those of
\* its events taken entry after entry and event after event within an entry;
\* when 200 has been sent every event has had its calls made and no call is
\* made after it; the callback of a call changes neither the calls made nor
\* how far the loops have come, whichever call it belongs to.
C38_SendsInEnvelopeOrder ==
  /\ [](req.object = "page" =>
          /\ dispatched <= Len(allEvents(req.entry))
          /\ outbox = Initiated(SubSeq(allEvents(req.entry), 1, dispatched))
          /\ res = 200 => dispatched = Len(allEvents(req.entry)))
  /\ [][(res = 200 /\ res' = 200) => outbox' = outbox]_vars
  /\ [][SendCompletes =>
          (outbox' = outbox /\ dispatched' = dispatched /\ tags' = tags)]_vars

\* three calls were made for the events of two entries, then 200 was sent,
\* then the callback of the third call ran before that of the first
C38_Witness ==
  /\ rawBody = "entries"
  /\ res = 200
  /\ Len(outbox) = 3
  /\ outbox[1].recipient.id = "U1"
  /\ outbox[2].recipient.id = "U2"
  /\ Len(sendlog) = 2
  /\ sendlog[1].call = 3
  /\ sendlog[2].call = 1

-----------------------------------------------------------------------------
(* Letter case of the help command                                         *)

\* C39: in the files that have a help command (part_000, part_001) a message
\* whose text is "help" in any letter case is answered with the top-level
\* prompt and not sent back, and a text that is sent back is sent in the case
\* it came in.
C39_HelpAnyCase ==
  (/\ SingleEvent /\ IsPlainTextOf(TheEvent)
   /\ variant \in {"part_000", "part_001"}) =>
    /\ toLowerCase(TheEvent.message.text) = "help" =>
         /\ threw = ""
         /\ Len(outbox) = 1
         /\ IsTopLevelPrompt(outbox[1], TheEvent.sender.id)
    /\ \A i \in DOMAIN outbox :
         (/\ Has(outbox[i], "message")
          /\ Has(outbox[i].message, "text")
          /\ toLowerCase(outbox[i].message.text) = toLowerCase(TheEvent.message.text))
           => outbox[i].message.text = TheEvent.message.text

====
